---- MODULE Spec2Model ----
(***************************************************************************)
(* A model of the browser-session pool, the conversation binder and the    *)
(* response detector of liubuer/llmapi (src/app/edge_manager.py,           *)
(* src/app/browser_manager.py, src/app/ai_client.py).                      *)
(*                                                                         *)
(* The program runs on one asyncio event loop: the code between two        *)
(* suspension points (await) is one atomic step.  Every action below is    *)
(* one such step of one task; an `async with self._session_lock` block is  *)
(* a step guarded by the lock being free.                                  *)
(***************************************************************************)
EXTENDS Integers, Sequences, FiniteSets, TLC

(***************************************************************************)
(* Bounds of the model.                                                    *)
(***************************************************************************)
NumChat == 2           \* concurrent tasks calling AIClient.chat
NumPlain == 1          \* concurrent tasks calling acquire_session
MaxSessions == 2       \* settings.max_sessions
MaxConvs == 2          \* conversation ids the binder may generate
MaxTicks == 1          \* clock advances
TickSeconds == 1801    \* seconds per clock advance
PollAttempts == 2      \* iterations of the `for _ in range(30)` wait loops
ConnectRetries == 2    \* max_retries of connect_to_edge
MaxDisconnects == 1    \* calls of disconnect()
MaxChunks == 3         \* chunks of one chunked dispatch
MaxInputChars == 100   \* settings.max_input_chars
MaxBody == 104         \* characters of filler before the end of a text

(***************************************************************************)
(* Program constants.                                                      *)
(***************************************************************************)
ConversationTimeoutSeconds == 1800

\* settings.response_timeout, in seconds (120 by default)
ResponseTimeout == 6

\* the same budget for the loop of _stream_response, in polls
StreamResponseTimeout == 7

\* the chunks the stream of one streaming response hands over at most
MaxSseChunks == 5

\* wait_new_element_timeout, ai_client.py 205
WaitNewElementTimeout == 5

\* `len(content) < 5`, ai_client.py 256
MinContentLen == 5

\* `stable_count >= 3`, ai_client.py 262
StableThreshold == 3

\* `stable_count >= 5`, ai_client.py 410
StreamStableThreshold == 5

ChatCallers == 1..NumChat
PlainCallers == (NumChat + 1)..(NumChat + NumPlain)
Callers == ChatCallers \cup PlainCallers
NoTask == 0
NoSession == 0
NoConv == 0
\* a conversation id chosen by the caller that the binder never generated
HintId == MaxConvs + 1

VARIABLES
    connected,              \* EdgeManager._connected
    context,                \* EdgeManager._browser / _context is not None
    sessions,               \* EdgeManager._sessions: ids in insertion order
    is_busy,                \* ids of the BrowserSession objects with is_busy
    nextSession,            \* the next fresh session id (uuid4)
    lockHolder,             \* the task inside `async with _session_lock`
    conversations,          \* EdgeManager._conversations
    conversation_timeouts,  \* EdgeManager._conversation_timeouts
    nextConv,               \* the next fresh conversation id (uuid4)
    now,                    \* datetime.now(), seconds
    task,                   \* per task: position and locals of its call
    dpc,                    \* position of the task running disconnect()
    disconnects,            \* calls of disconnect() so far
    tabs,                   \* ids of the sessions whose page is open in Edge
    det,                    \* the locals of one run of _wait_for_response
    job,                    \* one call of the long-text functions of AIClient
    sse                     \* one streaming response of the chat router

poolVars == <<connected, context, sessions, is_busy, nextSession, lockHolder,
              conversations, conversation_timeouts, nextConv, now, task, dpc,
              disconnects, tabs>>

vars == <<poolVars, det, job, sse>>

(***************************************************************************)
(* Locals of one task.                                                     *)
(*   pc      where the task is suspended                                   *)
(*   branch  "plain": acquire_session; "new" / "known" / "else": the three *)
(*           branches of acquire_conversation_session                      *)
(*   arg     the conversation_id argument                                  *)
(*   new     the new_conversation argument                                 *)
(*   conv    conv_id as yielded with the session                           *)
(*   target  target_session_id of _acquire_specific_session                *)
(*   session the BrowserSession the task obtained (its page)               *)
(*   polls   iterations done of the wait loop                              *)
(*   tries   attempts done of connect_to_edge                              *)
(*   at      datetime.now() as _cleanup_expired_conversations read it      *)
(*   swept   the conversation ids the sweep of this call logged as removed *)
(*   result  how the call ended, once it has ("done")                      *)
(***************************************************************************)
IdleTask ==
    [pc |-> "idle", branch |-> "none", arg |-> NoConv, new |-> FALSE,
     conv |-> NoConv, target |-> NoSession, session |-> NoSession,
     polls |-> 0, tries |-> 0, at |-> 0, swept |-> {}, result |-> "none"]

\* the call of a task ended with res (a value returned or an error raised)
Ended(r, res) ==
    [IdleTask EXCEPT !.pc = "done", !.result = res]

Range(s) == {s[i] : i \in 1..Len(s)}

Pop(f, S) == [k \in DOMAIN f \ S |-> f[k]]

Put(f, k, v) == [x \in DOMAIN f \cup {k} |-> IF x = k THEN v ELSE f[x]]

\* a task is between the scan that marked its session busy and the `finally`
\* that clears the flag
HeldPcs == {"bind", "body", "detect"}

Holding(c) == task[c].pc \in HeldPcs

\* the task is inside the `try:` of the context manager (the caller's body)
BodyPcs == {"body", "detect"}

\* response detection for a submitted message is running on the task's page
InFlight(c) == task[c].pc \in {"detect", "streaming"}

(***************************************************************************)
(* The scan `for s in self._sessions.values(): if not s.is_busy: ... break` *)
(***************************************************************************)
FirstIdleUnchecked(seq, busy) ==
    IF Len(seq) > 0 THEN seq[1] ELSE NoSession

\* the scan that finds no session
FirstIdleNone(seq, busy) == NoSession

FirstIdle(seq, busy) ==
    IF \E i \in 1..Len(seq) : seq[i] \notin busy
    THEN seq[CHOOSE i \in 1..Len(seq) :
                /\ seq[i] \notin busy
                /\ \A j \in 1..(i - 1) : seq[j] \in busy]
    ELSE NoSession

CanCreateOffByOne(n) == n <= MaxSessions

\* `len(self._sessions) < self.settings.max_sessions`
CanCreate(n) == n < MaxSessions

SpecificIdleAny(seq, busy, sid) == FirstIdle(seq, busy)

\* `session = self._sessions.get(session_id); if session and not session.is_busy`
SpecificIdle(seq, busy, sid) ==
    IF sid \in Range(seq) /\ sid \notin busy THEN sid ELSE NoSession

ElseConvIdKept(arg, fresh) == IF arg /= NoConv THEN arg ELSE fresh

\* the conv_id of the last branch of acquire_conversation_session:
\* `conv_id = f"conv-{uuid.uuid4().hex[:12]}"`
ElseConvId(arg, fresh) == fresh

FinallyUnlessRaised(busy, s, raised) == IF raised THEN busy ELSE busy \ {s}

FinallyIfBound(busy, s, raised) ==
    IF \E cid \in DOMAIN conversations : conversations[cid] = s
    THEN busy \ {s} ELSE busy

FinallyKeepsBusy(busy, s, raised) == busy

\* `finally: session.is_busy = False`
Finally(busy, s, raised) == busy \ {s}

\* `(now - last_active).total_seconds() > self._conversation_timeout_seconds`
\* the sweep that takes every binding for expired
ExpiredAll(t, tos) == DOMAIN tos

\* the bindings the sweep finds expired: t is the clock as the sweep read it
\* on entry, before it took the lock
Expired(t, tos) ==
    {cid \in DOMAIN tos : t - tos[cid] > ConversationTimeoutSeconds}

(***************************************************************************)
(* Texts are sequences of characters, so that strip(), len() and `in` are  *)
(* computed.  The Japanese characters of loading_texts are written by      *)
(* their code points.                                                      *)
(***************************************************************************)
Empty == <<>>
Thinking == <<"T", "h", "i", "n", "k", "i", "n", "g", ".", ".", ".">>
Partial == <<"P", "a", "r", "t", "i", "a", "l">>
PartialPadded == <<" ">> \o Partial \o <<"\n">>
PartialAnswer == Partial \o <<" ", "a", "n", "s", "w", "e", "r">>

PartialEllipsis == PartialAnswer \o <<".", ".", ".">>

\* what inner_text() of the last response element may give
PageTexts == {Empty, Thinking, Partial, PartialPadded, PartialAnswer}

\* ai_client.py 190
loading_texts ==
    { <<"u304c", "u56de", "u7b54", "u3092", "u751f", "u6210", "u4e2d">>,
      <<"u751f", "u6210", "u4e2d">>,
      <<"L", "o", "a", "d", "i", "n", "g">>,
      <<"T", "h", "i", "n", "k", "i", "n", "g">>,
      <<".", ".", ".">> }

Whitespace == {" ", "\n", "\t"}

RECURSIVE LStrip(_)
LStrip(s) ==
    IF s /= <<>> /\ s[1] \in Whitespace THEN LStrip(Tail(s)) ELSE s

RECURSIVE RStrip(_)
RStrip(s) ==
    IF s /= <<>> /\ s[Len(s)] \in Whitespace
    THEN RStrip(SubSeq(s, 1, Len(s) - 1)) ELSE s

\* str.strip()
Strip(s) == RStrip(LStrip(s))

\* `t in content`
Contains(t, content) ==
    \E i \in 0..(Len(content) - Len(t)) : SubSeq(content, i + 1, i + Len(t)) = t

IsLoadingTextExact(content) == content \in loading_texts

\* line 247: any(t in content for t in loading_texts)
IsLoadingText(content) == \E t \in loading_texts : Contains(t, content)

(***************************************************************************)
(* Locals of _wait_for_response.  `elapsed` counts seconds since `start`;  *)
(* `reads` lists the texts read at line 243, `quiet` says that no poll so  *)
(* far saw the loading indicator, `exit` says how the run ended, `mode`    *)
(* which of the two detectors runs ("blocking" for _wait_for_response,     *)
(* "streaming" for _stream_response), `grown` that some poll found more    *)
(* response elements than initial_count, `seen` what the last poll found:  *)
(* no response element or a failure ("none"), more elements than           *)
(* initial_count ("new"), or no more than initial_count with the last one  *)
(* reading the baseline snapshot ("same") or another text ("changed").     *)
(***************************************************************************)
IdleDet == [pc |-> "idle", mode |-> "none", sent_message |-> Empty, initial_count |-> 0,
            initial_content |-> Empty, elapsed |-> 0, last_content |-> Empty,
            stable_count |-> 0, reads |-> <<>>, quiet |-> TRUE,
            recent |-> [content |-> Empty, n |-> 0],
            grown |-> FALSE, seen |-> "none", exit |-> "none", result |-> Empty,
            response_started |-> FALSE, deltas |-> <<>>]

(***************************************************************************)
(* One call of _extract_question_and_content, of _split_long_text, of the  *)
(* long-prompt path of chat() or of _send_chunked_messages:                *)
(*   op        which of them                                               *)
(*   text      the argument (the prompt, for chat())                       *)
(*   content, question   what the extraction returned                      *)
(*   chunks    what the split returned                                     *)
(*   raised    the exception the call ended with, or "none"                *)
(*   sent      the messages submitted to the page, in order                *)
(*   replies   what _wait_for_response returned, in order                  *)
(*   log       the log lines about the replies to the chunks               *)
(*   i         the loop variable of _send_chunked_messages, from 1         *)
(*   result    what the call returned                                      *)
(***************************************************************************)
IdleJob == [op |-> "none", pc |-> "idle", text |-> <<>>, content |-> <<>>,
            question |-> <<>>, chunks |-> <<>>, raised |-> "none",
            sent |-> <<>>, replies |-> <<>>, log |-> <<>>, i |-> 0,
            stream |-> FALSE, result |-> <<>>]

\* One run of stream_response (routers/chat.py 67-116): `pc` is the place
\* the generator is suspended at, `events` the events it has yielded, `n`
\* the chunks it has taken from the stream of chat().
IdleSse == [pc |-> "idle", events |-> <<>>, n |-> 0]

Init ==
    /\ sse = IdleSse
    /\ job = IdleJob
    /\ det = IdleDet
    /\ connected = FALSE
    /\ context = FALSE
    /\ sessions = <<>>
    /\ is_busy = {}
    /\ nextSession = 1
    /\ lockHolder = NoTask
    /\ conversations = <<>>
    /\ conversation_timeouts = <<>>
    /\ nextConv = 1
    /\ now = 0
    /\ task = [c \in Callers |-> IdleTask]
    /\ dpc = "idle"
    /\ disconnects = 0
    /\ tabs = {}

Set(c, r) == task' = [task EXCEPT ![c] = r]

\* tasks that entered chat() and have not yet reached the branch that may
\* generate a conversation id
PreBranch == {c \in Callers : task[c].branch = "chat"}

(***************************************************************************)
(* The part of the state one task's acquire reads and writes, as a record, *)
(* so that the blocks a task runs without suspension compose.              *)
(***************************************************************************)
Here(c) ==
    [r |-> task[c], busy |-> is_busy, lock |-> lockHolder,
     convs |-> conversations, tos |-> conversation_timeouts, nconv |-> nextConv,
     conn |-> connected, ctx |-> context]

Apply(c, P) ==
    /\ task' = [task EXCEPT ![c] = P.r]
    /\ is_busy' = P.busy
    /\ lockHolder' = P.lock
    /\ conversations' = P.convs
    /\ conversation_timeouts' = P.tos
    /\ nextConv' = P.nconv
    /\ connected' = P.conn
    /\ context' = P.ctx

\* the scan marked session s busy for the task
Acquired(r, s) ==
    [r EXCEPT !.session = s, !.target = NoSession, !.polls = 0,
              !.pc = IF r.branch = "plain" THEN "body" ELSE "bind"]

(***************************************************************************)
(* _cleanup_expired_conversations (354-365) and the connection check of    *)
(* acquire_conversation_session (272).                                     *)
(***************************************************************************)
SweepStep(P) ==
    [P EXCEPT !.convs = Pop(P.convs, Expired(P.r.at, P.tos)),
              !.tos = Pop(P.tos, Expired(P.r.at, P.tos)),
              !.r = [P.r EXCEPT !.pc = IF P.conn THEN "branch" ELSE "connecting",
                                !.at = 0,
                                !.swept = Expired(P.r.at, P.tos)]]

(***************************************************************************)
(* acquire_conversation_session, lines 277-304: the choice of the branch.  *)
(***************************************************************************)
BranchStep(P) ==
    IF P.r.new
    THEN [P EXCEPT !.r = [P.r EXCEPT !.pc = "any_scan", !.branch = "new",
                                     !.conv = P.nconv, !.new = FALSE,
                                     !.arg = NoConv],
                   !.nconv = P.nconv + 1]
    ELSE IF P.r.arg /= NoConv /\ P.r.arg \in DOMAIN P.convs
    THEN [P EXCEPT !.r = [P.r EXCEPT !.pc = "specific", !.branch = "known",
                                     !.conv = P.r.arg,
                                     !.target = P.convs[P.r.arg]]]
    ELSE [P EXCEPT !.r = [P.r EXCEPT !.pc = "any_scan", !.branch = "else",
                                     !.conv = ElseConvId(P.r.arg, P.nconv)],
                   !.nconv = P.nconv + 1]

(***************************************************************************)
(* _acquire_any_idle_session, lines 315-323 (acquire_session, 221-232;     *)
(* BrowserManager.acquire_session, 259-272): the first scan under the lock. *)
(***************************************************************************)
AnyScanStep(c, P) ==
    LET s == FirstIdle(sessions, P.busy)
    IN  IF s /= NoSession
        THEN [P EXCEPT !.busy = P.busy \cup {s}, !.r = Acquired(P.r, s)]
        ELSE IF CanCreate(Len(sessions))
        THEN IF P.ctx
             THEN \* awaits self._context.new_page() holding the lock
                  [P EXCEPT !.lock = c, !.r = [P.r EXCEPT !.pc = "creating"]]
             ELSE \* self._context is None: the call raises
                  [P EXCEPT !.r = Ended(P.r, "other")]
        ELSE [P EXCEPT !.r = [P.r EXCEPT !.pc = "any_wait", !.polls = 0]]

(***************************************************************************)
(* One iteration of the loop of _acquire_specific_session, 344-350.        *)
(***************************************************************************)
SpecificStep(P) ==
    LET s == SpecificIdle(sessions, P.busy, P.r.target)
    IN  IF s /= NoSession
        THEN [P EXCEPT !.busy = P.busy \cup {s}, !.r = Acquired(P.r, s)]
        ELSE [P EXCEPT !.r = [P.r EXCEPT !.polls = @ + 1]]

(***************************************************************************)
(* asyncio.Lock.acquire returns without suspending only when the lock is   *)
(* free and nobody queues for it; the tasks known to queue are those that  *)
(* found it taken at their sweep or at their first scan.                   *)
(***************************************************************************)
LockQueued(c) ==
    \E d \in Callers \ {c} :
        \/ task[d].pc \in {"sweep", "any_scan"}
        \/ task[d].pc = "specific" /\ task[d].polls = 0

LockFree(c, P) == P.lock = NoTask /\ ~LockQueued(c)

\* the first lock block of the acquire the branch chose
ScanStep(c, P) ==
    IF P.r.pc = "specific" THEN SpecificStep(P) ELSE AnyScanStep(c, P)

\* from the branch on: the scan follows at once when the lock is free
FromBranch(c, P) ==
    LET B == IF P.r.branch = "plain"
             THEN [P EXCEPT !.r = [P.r EXCEPT !.pc = "any_scan"]]
             ELSE BranchStep(P)
    IN  IF LockFree(c, P) THEN ScanStep(c, B) ELSE B

\* acquire_conversation_session from its first line, the lock being free
FromSweep(c, P) ==
    LET S == SweepStep(P)
    IN  IF S.r.pc = "branch" THEN FromBranch(c, S) ELSE S

\* a call that generates no conversation id whatever the other tasks do: it
\* names a binding that its own sweep keeps and reaches the branch in its
\* first step
ContinuesAtOnce(c, cid, new) ==
    /\ ~new /\ connected /\ LockFree(c, Here(c))
    /\ cid \in DOMAIN conversations \ Expired(now, conversation_timeouts)

(***************************************************************************)
(* AIClient.chat is called (conversation_id = cid, new_conversation = new): *)
(* the connection check of 688, then acquire_conversation_session up to    *)
(* its first suspension.                                                   *)
(***************************************************************************)
StartChat(c, cid, new) ==
    /\ task[c].pc = "idle"
    /\ \/ nextConv + Cardinality(PreBranch) <= MaxConvs
       \/ ContinuesAtOnce(c, cid, new)
    /\ LET r == [IdleTask EXCEPT !.branch = "chat", !.arg = cid, !.new = new]
           P == [Here(c) EXCEPT !.r = [r EXCEPT !.at = now]]
       IN  IF ~connected
           THEN Apply(c, [P EXCEPT !.r = [r EXCEPT !.pc = "chat_connect"]])
           ELSE IF ~LockFree(c, P)
           THEN Apply(c, [P EXCEPT !.r = [P.r EXCEPT !.pc = "sweep"]])
           ELSE Apply(c, FromSweep(c, P))
    /\ UNCHANGED <<sessions, nextSession, now, dpc, disconnects, det, job, tabs, sse>>

(***************************************************************************)
(* EdgeManager.acquire_session / BrowserManager.acquire_session is entered *)
(***************************************************************************)
StartPlain(c) ==
    /\ task[c].pc = "idle"
    /\ LET r == [IdleTask EXCEPT !.branch = "plain"]
           P == [Here(c) EXCEPT !.r = r]
       IN  IF ~connected
           THEN Apply(c, [P EXCEPT !.r = [r EXCEPT !.pc = "connecting"]])
           ELSE Apply(c, FromBranch(c, P))
    /\ UNCHANGED <<sessions, nextSession, now, dpc, disconnects, det, job, tabs, sse>>

\* the pcs of a task inside connect_to_edge
ConnectPcs == {"chat_connect", "connecting"}

(***************************************************************************)
(* One attempt of connect_to_edge (157-181), awaited by chat() or by an    *)
(* acquire, succeeds.                                                      *)
(***************************************************************************)
ConnectOk(c) ==
    /\ task[c].pc \in ConnectPcs
    /\ LET P == [Here(c) EXCEPT
                    !.r = [task[c] EXCEPT
                              !.tries = 0,
                              !.at = IF task[c].pc = "chat_connect" THEN now
                                     ELSE 0],
                    !.conn = TRUE, !.ctx = TRUE]
       IN  IF task[c].pc = "connecting"
           THEN Apply(c, FromBranch(c, P))
           ELSE IF ~LockFree(c, P)
           THEN Apply(c, [P EXCEPT !.r = [P.r EXCEPT !.pc = "sweep"]])
           ELSE Apply(c, FromSweep(c, P))
    /\ UNCHANGED <<sessions, nextSession, now, dpc, disconnects, det, job, tabs, sse>>

\* the loop makes one attempt more than max_retries
AttemptsLeftOneMore(tries, max_retries) == tries + 1 <= max_retries

\* `for attempt in range(max_retries)`: after `tries` failed attempts and
\* one more, is there a next iteration
AttemptsLeft(tries, max_retries) == tries + 1 < max_retries

\* the caller goes on to the acquire although connect_to_edge returned False
AfterConnectFailureProceeds(r) == [r EXCEPT !.pc = "any_scan", !.tries = 0]

\* `if not connected: raise` of acquire_session, acquire_conversation_session
\* and chat(): the call ends with the connection error
AfterConnectFailure(r) == Ended(r, "connection_error")

\* one attempt fails; after the last one connect_to_edge returns False and
\* the caller raises
ConnectFail(c) ==
    /\ task[c].pc \in ConnectPcs
    /\ IF AttemptsLeft(task[c].tries, ConnectRetries)
       THEN Set(c, [task[c] EXCEPT !.tries = @ + 1])
       ELSE Set(c, AfterConnectFailure(task[c]))
    /\ UNCHANGED <<connected, context, sessions, is_busy, nextSession, lockHolder,
                   conversations, conversation_timeouts, nextConv, now, dpc,
                   disconnects, det, job, tabs, sse>>

\* a task that waited for the lock at the sweep gets it
Sweep(c) ==
    /\ task[c].pc = "sweep"
    /\ lockHolder = NoTask
    /\ Apply(c, FromSweep(c, Here(c)))
    /\ UNCHANGED <<sessions, nextSession, now, dpc, disconnects, det, job, tabs, sse>>

\* a task that waited for the lock at its first scan gets it
AnyScan(c) ==
    /\ task[c].pc = "any_scan"
    /\ lockHolder = NoTask
    /\ Apply(c, AnyScanStep(c, Here(c)))
    /\ UNCHANGED <<sessions, nextSession, now, dpc, disconnects, det, job, tabs, sse>>

(***************************************************************************)
(* _create_session (388-402) after new_page() returned: register, then     *)
(* (323) mark busy, and leave the lock.                                    *)
(***************************************************************************)
CreateSession(c) ==
    /\ task[c].pc = "creating"
    /\ lockHolder = c
    /\ sessions' = Append(sessions, nextSession)
    /\ nextSession' = nextSession + 1
    /\ is_busy' = is_busy \cup {nextSession}
    /\ tabs' = tabs \cup {nextSession}
    /\ lockHolder' = NoTask
    /\ Set(c, Acquired(task[c], nextSession))
    /\ UNCHANGED <<connected, context, conversations, conversation_timeouts,
                   nextConv, now, dpc, disconnects, det, job, sse>>

\* new_page() raised: the exception leaves `async with` and the acquire
CreateSessionFail(c) ==
    /\ task[c].pc = "creating"
    /\ lockHolder = c
    /\ lockHolder' = NoTask
    /\ Set(c, Ended(task[c], "other"))
    /\ UNCHANGED <<connected, context, sessions, is_busy, nextSession,
                   conversations, conversation_timeouts, nextConv, now, dpc,
                   disconnects, det, job, tabs, sse>>

(***************************************************************************)
(* One iteration of the wait loop of _acquire_any_idle_session, 327-339    *)
(* (acquire_session 236-248; BrowserManager.acquire_session 274-287).      *)
(***************************************************************************)
\* the loop runs one iteration more than its range
BudgetSpentOneLate(polls, budget) == polls + 1 > budget

\* `for _ in range(30)`: after `polls` iterations and this one, is the loop over
BudgetSpent(polls, budget) == polls + 1 >= budget

AnyPoll(c) ==
    /\ task[c].pc = "any_wait"
    /\ lockHolder = NoTask
    /\ LET s == FirstIdle(sessions, is_busy)
       IN  IF s /= NoSession
           THEN /\ is_busy' = is_busy \cup {s}
                /\ Set(c, Acquired(task[c], s))
           ELSE /\ UNCHANGED is_busy
                /\ IF BudgetSpent(task[c].polls, PollAttempts)
                   THEN Set(c, Ended(task[c], "session_timeout"))
                   ELSE Set(c, [task[c] EXCEPT !.polls = @ + 1])
    /\ UNCHANGED <<connected, context, sessions, nextSession, lockHolder,
                   conversations, conversation_timeouts, nextConv, now, dpc,
                   disconnects, det, job, tabs, sse>>

\* a further iteration of the loop of _acquire_specific_session
SpecificPoll(c) ==
    /\ task[c].pc = "specific"
    /\ task[c].polls < PollAttempts
    /\ lockHolder = NoTask
    /\ Apply(c, SpecificStep(Here(c)))
    /\ UNCHANGED <<sessions, nextSession, now, dpc, disconnects, det, job, tabs, sse>>

\* line 352: the loop is exhausted
SpecificTimeout(c) ==
    /\ task[c].pc = "specific"
    /\ task[c].polls >= PollAttempts
    /\ Set(c, Ended(task[c], "session_timeout"))
    /\ UNCHANGED <<connected, context, sessions, is_busy, nextSession, lockHolder,
                   conversations, conversation_timeouts, nextConv, now, dpc,
                   disconnects, det, job, tabs, sse>>

(***************************************************************************)
(* The `async with self._session_lock` after the acquire: lines 284-286,   *)
(* 293-294, 301-303; then mark_used() and the yield.                       *)
(***************************************************************************)
Bind(c) ==
    /\ task[c].pc = "bind"
    /\ lockHolder = NoTask
    /\ conversations' = IF task[c].branch = "known" THEN conversations
                        ELSE Put(conversations, task[c].conv, task[c].session)
    /\ conversation_timeouts' = Put(conversation_timeouts, task[c].conv, now)
    /\ Set(c, [task[c] EXCEPT !.pc = "body"])
    /\ UNCHANGED <<connected, context, sessions, is_busy, nextSession, lockHolder,
                   nextConv, now, dpc, disconnects, det, job, tabs, sse>>

(***************************************************************************)
(* The body of `async with acquire_conversation_session(...)` in chat():   *)
(* navigation, the new-chat click and the input-box check (702-715), then  *)
(* a prompt of at most max_input_chars characters is typed and submitted.  *)
(* A blocking call goes through _send_message (281-321) and waits in       *)
(* _wait_for_response; a streaming call (739-766) returns the generator of *)
(* _stream_response, which leaves the `async with` of chat() and so runs   *)
(* the `finally` of the acquire.  stream (st) is an input of the call that *)
(* nothing reads earlier.                                                  *)
(***************************************************************************)
Submitted(c, st) ==
    IF st
    THEN /\ Set(c, [task[c] EXCEPT !.pc = "streaming"])
         /\ is_busy' = Finally(is_busy, task[c].session, FALSE)
    ELSE /\ Set(c, [task[c] EXCEPT !.pc = "detect"])
         /\ UNCHANGED is_busy

SubmitFirst(c, st) ==
    /\ task[c].pc = "body"
    /\ task[c].branch /= "plain"
    /\ Submitted(c, st)
    /\ UNCHANGED <<connected, context, sessions, nextSession, lockHolder,
                   conversations, conversation_timeouts, nextConv, now, dpc,
                   disconnects, det, job, tabs, sse>>

(***************************************************************************)
(* _wait_for_response returned a reply (stable, or partial on timeout):    *)
(* chat() returns and the session is released.                             *)
(***************************************************************************)
DetectReturn(c) ==
    /\ task[c].pc = "detect"
    /\ Set(c, Ended(task[c], "reply"))
    /\ is_busy' = Finally(is_busy, task[c].session, FALSE)
    /\ UNCHANGED <<connected, context, sessions, nextSession, lockHolder,
                   conversations, conversation_timeouts, nextConv, now, dpc,
                   disconnects, det, job, tabs, sse>>

(***************************************************************************)
(* The errors the body of a call can end with:                             *)
(*   "no_input"    710-715, 288-290: no input box                          *)
(*   "no_setting"  472: the prompt exceeds max_input_chars and             *)
(*                 _split_long_text reads settings.chunk_size, a field     *)
(*                 the Settings class does not have                        *)
(*   "timeout"     279: no reply within response_timeout                   *)
(*   "other"       any other exception of a page operation                 *)
(***************************************************************************)
BodyErrors == {"no_input", "no_setting", "timeout", "other"}

RaisedAt(err) ==
    CASE err = "no_input"   -> {"body"}
      [] err = "no_setting" -> {"body"}
      [] err = "timeout"    -> {"detect"}
      [] OTHER              -> BodyPcs

\* the exception propagates through `async with`: the `finally` runs
BodyRaise(c, err) ==
    /\ task[c].pc \in RaisedAt(err)
    /\ task[c].branch /= "plain"
    /\ is_busy' = Finally(is_busy, task[c].session, TRUE)
    /\ Set(c, Ended(task[c], err))
    /\ UNCHANGED <<connected, context, sessions, nextSession, lockHolder,
                   conversations, conversation_timeouts, nextConv, now, dpc,
                   disconnects, det, job, tabs, sse>>

\* the body of `async with acquire_session()` (chat.py 164-213,
\* edge_manager.py 455-456, 496-500) ends, normally or by an exception
PlainEnd(c, raised) ==
    /\ task[c].pc = "body"
    /\ task[c].branch = "plain"
    /\ is_busy' = Finally(is_busy, task[c].session, raised)
    /\ Set(c, Ended(task[c], IF raised THEN "other" ELSE "reply"))
    /\ UNCHANGED <<connected, context, sessions, nextSession, lockHolder,
                   conversations, conversation_timeouts, nextConv, now, dpc,
                   disconnects, det, job, tabs, sse>>

\* the consumer exhausted the generator of _stream_response
StreamEnd(c) ==
    /\ task[c].pc = "streaming"
    /\ Set(c, Ended(task[c], "stream_end"))
    /\ UNCHANGED <<connected, context, sessions, is_busy, nextSession, lockHolder,
                   conversations, conversation_timeouts, nextConv, now, dpc,
                   disconnects, det, job, tabs, sse>>

\* the caller has taken the result of its call and may call again
Return(c) ==
    /\ task[c].pc = "done"
    /\ Set(c, IdleTask)
    /\ UNCHANGED <<connected, context, sessions, is_busy, nextSession, lockHolder,
                   conversations, conversation_timeouts, nextConv, now, dpc,
                   disconnects, det, job, tabs, sse>>

(***************************************************************************)
(* remove_conversation, 379-386 (DELETE /v1/conversations/{id}).           *)
(***************************************************************************)
RemoveConversation(cid) ==
    /\ cid \in DOMAIN conversations
    /\ conversations' = Pop(conversations, {cid})
    /\ conversation_timeouts' = Pop(conversation_timeouts, {cid})
    /\ UNCHANGED <<connected, context, sessions, is_busy, nextSession, lockHolder,
                   nextConv, now, task, dpc, disconnects, det, job, tabs, sse>>

(***************************************************************************)
(* disconnect, 186-209, takes no lock.  With a browser handle it closes    *)
(* the pages of the sessions registered at that moment, one `await         *)
(* session.page.close()` after the other (192-196); when the last close    *)
(* has returned it clears the pool and drops the handles (197-202); after  *)
(* `await self._playwright.stop()` it clears the flag (208).  With an      *)
(* empty pool there is no close to await and the clearing follows at once. *)
(***************************************************************************)
DisconnectClose ==
    /\ dpc = "idle"
    /\ disconnects < MaxDisconnects
    /\ disconnects' = disconnects + 1
    /\ IF context /\ sessions # <<>>
       THEN /\ tabs' = tabs \ Range(sessions)
            /\ dpc' = "closing"
            /\ UNCHANGED <<sessions, context>>
       ELSE /\ sessions' = <<>> /\ context' = FALSE
            /\ dpc' = "stopping"
            /\ UNCHANGED tabs
    /\ UNCHANGED <<connected, is_busy, nextSession, lockHolder, conversations,
                   conversation_timeouts, nextConv, now, task, det, job, sse>>

\* the closes have returned: self._sessions.clear() and the handles
DisconnectClear ==
    /\ dpc = "closing"
    /\ dpc' = "stopping"
    /\ sessions' = <<>>
    /\ context' = FALSE
    /\ UNCHANGED <<connected, is_busy, nextSession, lockHolder, conversations,
                   conversation_timeouts, nextConv, now, task, disconnects,
                   det, job, tabs, sse>>

\* self._playwright.stop() has returned
DisconnectEnd ==
    /\ dpc = "stopping"
    /\ dpc' = "idle"
    /\ connected' = FALSE
    /\ UNCHANGED <<context, sessions, is_busy, nextSession, lockHolder,
                   conversations, conversation_timeouts, nextConv, now, task,
                   disconnects, det, job, tabs, sse>>

\* time passes
Tick ==
    /\ now < MaxTicks * TickSeconds
    /\ now' = now + TickSeconds
    /\ UNCHANGED <<connected, context, sessions, is_busy, nextSession, lockHolder,
                   conversations, conversation_timeouts, nextConv, task, dpc,
                   disconnects, det, job, tabs, sse>>

\* the ids generated by calls that have not recorded their binding yet: no
\* caller has seen them
Unrecorded ==
    {task[c].conv : c \in {d \in Callers :
        task[d].pc \in {"any_scan", "creating", "any_wait", "bind"}}}

\* the conversation ids a caller can name: the generated ones it can have
\* seen (KnownIds), or one of its own making (HintId)
KnownIds == (1..(nextConv - 1)) \ Unrecorded

ChatStep(c) ==
    \/ \E cid \in {NoConv, HintId} \cup KnownIds, new \in BOOLEAN :
          StartChat(c, cid, new)
    \/ Sweep(c)
    \/ SpecificPoll(c)
    \/ SpecificTimeout(c)
    \/ Bind(c)
    \/ \E st \in BOOLEAN : SubmitFirst(c, st)
    \/ DetectReturn(c)
    \/ \E err \in BodyErrors : BodyRaise(c, err)
    \/ StreamEnd(c)

PlainStep(c) ==
    \/ StartPlain(c)
    \/ \E raised \in BOOLEAN : PlainEnd(c, raised)

\* the steps both kinds of call share
PoolStep(c) ==
    \/ ConnectOk(c)
    \/ ConnectFail(c)
    \/ CreateSession(c)
    \/ CreateSessionFail(c)
    \/ Return(c)

Admin ==
    \/ \E cid \in DOMAIN conversations : RemoveConversation(cid)
    \/ Tick

Next ==
    \/ \E c \in ChatCallers : ChatStep(c)
    \/ \E c \in PlainCallers : PlainStep(c)
    \/ \E c \in Callers : PoolStep(c) \/ AnyScan(c) \/ AnyPoll(c)
    \/ Admin

\* NumChat tasks never exhaust a pool of MaxSessions >= NumChat sessions and
\* never queue two deep for the lock, so none of them waits at AnyScan or in
\* the loop of AnyPoll
NextChat ==
    \/ \E c \in ChatCallers : ChatStep(c) \/ PoolStep(c)
    \/ Admin

NextDetach ==
    \/ NextChat
    \/ DisconnectClose
    \/ DisconnectClear
    \/ DisconnectEnd

\* the server: chat calls, plain acquires, administration and time
Spec == Init /\ [][Next]_vars

\* chat calls with disconnect() called at any moment
SpecDetach == Init /\ [][NextDetach]_vars

(***************************************************************************)
(* AIClient._wait_for_response, 183-279.  One iteration of its loop lasts  *)
(* a second (the half-second sleep and the page queries before it).        *)
(***************************************************************************)
StableEarly(n) == n + 1 >= StableThreshold

\* line 262
Stable(n) == n >= StableThreshold

TimedOutRaises(d) == [d EXCEPT !.pc = "done", !.exit = "error"]

\* 274-279: the loop ran out of time
TimedOut(d) ==
    IF d.last_content /= Empty
    THEN [d EXCEPT !.pc = "done", !.exit = "timeout", !.result = d.last_content]
    ELSE [d EXCEPT !.pc = "done", !.exit = "error"]

\* `await asyncio.sleep(0.5); continue`, and the end of an iteration
Continue(d) == [d EXCEPT !.elapsed = @ + 1]

\* a changed text restarts the count and is not remembered
CompareForgets(d, content, is_loading) ==
    IF content = d.last_content /\ ~is_loading
    THEN IF Stable(d.stable_count + 1)
         THEN [d EXCEPT !.stable_count = @ + 1, !.pc = "done",
                        !.exit = "stable", !.result = content]
         ELSE Continue([d EXCEPT !.stable_count = @ + 1])
    ELSE Continue([d EXCEPT !.stable_count = 0])

\* 258-267, for the text read at 243
Compare(d, content, is_loading) ==
    IF content = d.last_content /\ ~is_loading
    THEN IF Stable(d.stable_count + 1)
         THEN [d EXCEPT !.stable_count = @ + 1, !.pc = "done",
                        !.exit = "stable", !.result = content]
         ELSE Continue([d EXCEPT !.stable_count = @ + 1])
    ELSE Continue([d EXCEPT !.stable_count = 0, !.last_content = content])

\* 242-267: the last element is read and filtered
ReadLast(d, text, is_loading) ==
    LET content == Strip(text)
        r == [d EXCEPT !.reads = Append(@, content),
                       !.quiet = @ /\ ~is_loading]
    IN  IF d.sent_message /= Empty /\ content = Strip(d.sent_message)
        THEN Continue(r)
        ELSE IF IsLoadingText(content) \/ Len(content) < MinContentLen
        THEN Continue(r)
        ELSE Compare(r, content, is_loading)

NewElementGateOpen(d, count, current) == TRUE

\* 227-240: no new element yet
NewElementGate(d, count, current) ==
    IF count <= d.initial_count /\ count > 0
    THEN IF d.elapsed < WaitNewElementTimeout
         THEN FALSE
         ELSE LET current_content == Strip(current)
              IN  ~(\/ current_content = d.initial_content
                    \/ current_content = Strip(d.sent_message))
    ELSE TRUE

\* What one iteration of a detection loop met: the loop kept waiting for a
\* new element ("wait"), found no response element ("none"), read the last
\* element ("read", with the stripped text), or a page query raised
\* ("raised"); loading is the state of the loading indicator at that poll.
Met(d, count, current, text, is_loading) ==
    LET kind == IF ~NewElementGate(d, count, current) THEN "wait"
                ELSE IF count > 0 THEN "read" ELSE "none"
    IN  [kind |-> kind,
         content |-> IF kind = "read" THEN Strip(text) ELSE Empty,
         loading |-> is_loading,
         grown |-> count > d.initial_count,
         seen |-> IF count = 0 THEN "none"
                  ELSE IF count > d.initial_count THEN "new"
                  ELSE IF Strip(current) = d.initial_content THEN "same"
                  ELSE "changed"]

MetRaise == [kind |-> "raised", content |-> Empty, loading |-> FALSE,
             grown |-> FALSE, seen |-> "none"]

\* `recent` remembers how the most recent polls went: the last n polls in a
\* row, up to the one just made, each read exactly `content` with the
\* loading indicator absent (n = 0 when the last poll did anything else)
Note(d, met) ==
    LET n == IF met.kind = "read" /\ ~met.loading
             THEN IF d.recent.n > 0 /\ d.recent.content = met.content
                  THEN IF d.recent.n < StableThreshold
                       THEN d.recent.n + 1 ELSE StableThreshold
                  ELSE 1
             ELSE 0
    IN  [d EXCEPT !.recent = [content |-> IF n > 0 THEN met.content ELSE Empty,
                              n |-> n],
                  !.grown = @ \/ met.grown,
                  !.seen = met.seen]

\* one iteration of the loop, 208-269
Iteration(d, count, current, text, is_loading) ==
    IF ~NewElementGate(d, count, current)
    THEN Continue([d EXCEPT !.quiet = @ /\ ~is_loading])
    ELSE IF count > 0
    THEN ReadLast(d, text, is_loading)
    ELSE Continue([d EXCEPT !.quiet = @ /\ ~is_loading])

\* The calls of a detector: the message sent, the number of response
\* elements counted before the send and the text of the last of them.  A
\* first message, empty or not, finds no response element; a later one
\* finds the reply to the message before it.
StartCases ==
    { <<Empty, 0, Empty>>, <<Partial, 0, Empty>>, <<Partial, 1, Partial>> }

\* 185-203: the call, with what the page shows at that moment
DetectStart(sent, count, text) ==
    /\ det.pc = "idle"
    /\ det' = [IdleDet EXCEPT !.pc = "polling", !.mode = "blocking",
                              !.sent_message = sent,
                              !.initial_count = count,
                              !.initial_content =
                                  IF count > 0 THEN Strip(text) ELSE Empty]
    /\ UNCHANGED <<poolVars, job, sse>>

\* the loop condition of 207 holds and the page shows no response element
\* (count = 0) or a new one, reading `text` at 243
Poll(count, text, is_loading) ==
    /\ det.pc = "polling"
    /\ det.mode = "blocking"
    /\ det.elapsed < ResponseTimeout
    /\ count \in {0, det.initial_count + 1}
    /\ det' = Note(Iteration(det, count, text, text, is_loading),
                   Met(det, count, text, text, is_loading))
    /\ UNCHANGED <<poolVars, job, sse>>

\* the same with the response elements of before the send: the last one
\* reads `current` at 234 and `text` at 243
PollOld(current, text, is_loading) ==
    /\ det.pc = "polling"
    /\ det.mode = "blocking"
    /\ det.elapsed < ResponseTimeout
    /\ det.initial_count > 0
    /\ det' = Note(Iteration(det, det.initial_count, current, text, is_loading),
                   Met(det, det.initial_count, current, text, is_loading))
    /\ UNCHANGED <<poolVars, job, sse>>

\* 270-272: a page query raised
PollRaises ==
    /\ det.pc = "polling"
    /\ det.mode = "blocking"
    /\ det.elapsed < ResponseTimeout
    /\ det' = Note(Continue(det), MetRaise)
    /\ UNCHANGED <<poolVars, job, sse>>

\* the loop condition of 207 fails
DetectTimeout ==
    /\ det.pc = "polling"
    /\ det.mode = "blocking"
    /\ det.elapsed >= ResponseTimeout
    /\ det' = TimedOut(det)
    /\ UNCHANGED <<poolVars, job, sse>>

NextDetect ==
    \/ \E call \in StartCases : DetectStart(call[1], call[2], call[3])
    \/ \E count \in 0..2, text \in PageTexts, is_loading \in BOOLEAN :
          Poll(count, text, is_loading)
    \/ \E current, text \in PageTexts, is_loading \in BOOLEAN :
          PollOld(current, text, is_loading)
    \/ PollRaises
    \/ DetectTimeout

\* one run of the blocking detector against every page behaviour
SpecDetect == Init /\ [][NextDetect]_vars

(***************************************************************************)
(* AIClient._stream_response, 323-421: the generator behind a streaming    *)
(* call.  `reads` lists the texts read at line 374, `deltas` the values    *)
(* yielded so far.  One iteration lasts a second, as above.                *)
(***************************************************************************)
\* what the page may show while a reply is being written
StreamTexts == {Empty, Partial, PartialAnswer, PartialEllipsis}

\* line 410
StreamStable(n) == n >= StreamStableThreshold

\* 394-412, for a text that passed the filters
Grow(d, content, is_loading) ==
    LET last == IF d.response_started THEN d.last_content ELSE Empty
        r == [d EXCEPT !.response_started = TRUE, !.last_content = last]
    IN  IF Len(content) > Len(last)
        THEN Continue([r EXCEPT
                 !.deltas = Append(@, SubSeq(content, Len(last) + 1, Len(content))),
                 !.last_content = content,
                 !.stable_count = 0])
        ELSE IF ~is_loading
        THEN IF StreamStable(r.stable_count + 1)
             THEN [r EXCEPT !.stable_count = @ + 1, !.pc = "done",
                            !.exit = "stable"]
             ELSE Continue([r EXCEPT !.stable_count = @ + 1])
        ELSE Continue(r)

\* 373-412: the last element is read and filtered
StreamRead(d, text, is_loading) ==
    LET content == Strip(text)
        r == [d EXCEPT !.reads = Append(@, content)]
    IN  IF d.sent_message /= Empty /\ content = Strip(d.sent_message)
        THEN Continue(r)
        ELSE IF IsLoadingText(content) \/ Len(content) < MinContentLen
        THEN Continue(r)
        ELSE Grow(r, content, is_loading)

\* one iteration of the loop, 350-414
StreamIteration(d, count, current, text, is_loading) ==
    IF ~NewElementGate(d, count, current)
    THEN Continue(d)
    ELSE IF count > 0
    THEN StreamRead(d, text, is_loading)
    ELSE Continue(d)

\* The loop queries the loading indicator only at 406-407, for a content
\* that passed the filters of 383-391: a poll that does not come there sees
\* no indicator.
LoadingSeen(d, text, is_loading) ==
    LET content == Strip(text)
    IN  /\ is_loading
        /\ ~(d.sent_message /= Empty /\ content = Strip(d.sent_message))
        /\ ~(IsLoadingText(content) \/ Len(content) < MinContentLen)

\* the content yielded so far: the last content a delta was cut from
Yielded(d) == IF d.response_started THEN d.last_content ELSE Empty

\* `recent.n` counts the most recent polls in a row, up to the one just made,
\* each of which read a content not longer than the content yielded before
\* it, with the loading indicator absent
StreamNote(d, yielded, met) ==
    LET n == IF met.kind = "read" /\ ~met.loading
                /\ Len(met.content) <= Len(yielded)
             THEN IF d.recent.n < StreamStableThreshold
                  THEN d.recent.n + 1 ELSE StreamStableThreshold
             ELSE 0
    IN  [d EXCEPT !.recent = [content |-> Empty, n |-> n],
                  !.grown = @ \/ met.grown,
                  !.seen = met.seen]

\* 325-345: the generator starts to run
StreamStart(sent, count, text) ==
    /\ det.pc = "idle"
    /\ det' = [IdleDet EXCEPT !.pc = "polling", !.mode = "streaming",
                              !.sent_message = sent,
                              !.initial_count = count,
                              !.initial_content =
                                  IF count > 0 THEN Strip(text) ELSE Empty]
    /\ UNCHANGED <<poolVars, job, sse>>

\* the loop condition of 349 holds; no response element or a new one
StreamPoll(count, text, is_loading) ==
    /\ det.pc = "polling"
    /\ det.mode = "streaming"
    /\ det.elapsed < StreamResponseTimeout
    /\ count \in {0, det.initial_count + 1}
    /\ det' = StreamNote(StreamIteration(det, count, text, text, is_loading),
                         Yielded(det),
                         Met(det, count, text, text,
                             LoadingSeen(det, text, is_loading)))
    /\ UNCHANGED <<poolVars, job, sse>>

\* the same with the response elements of before the send
StreamPollOld(current, text, is_loading) ==
    /\ det.pc = "polling"
    /\ det.mode = "streaming"
    /\ det.elapsed < StreamResponseTimeout
    /\ det.initial_count > 0
    /\ det' = StreamNote(StreamIteration(det, det.initial_count, current,
                                         text, is_loading),
                         Yielded(det),
                         Met(det, det.initial_count, current, text,
                             LoadingSeen(det, text, is_loading)))
    /\ UNCHANGED <<poolVars, job, sse>>

\* 415-417: a page query raised
StreamPollRaises ==
    /\ det.pc = "polling"
    /\ det.mode = "streaming"
    /\ det.elapsed < StreamResponseTimeout
    /\ det' = StreamNote(Continue(det), Yielded(det), MetRaise)
    /\ UNCHANGED <<poolVars, job, sse>>

StreamTimedOutRaises(d) ==
    [d EXCEPT !.pc = "done",
              !.exit = IF d.response_started THEN "timeout" ELSE "error"]

\* 419-421: after the loop the generator logs, saves a screenshot (whose
\* failure _save_screenshot swallows, 63-70) and returns
StreamTimedOut(d) == [d EXCEPT !.pc = "done", !.exit = "timeout"]

\* the loop condition of 349 fails: the generator ends (419-421)
StreamTimeout ==
    /\ det.pc = "polling"
    /\ det.mode = "streaming"
    /\ det.elapsed >= StreamResponseTimeout
    /\ det' = StreamTimedOut(det)
    /\ UNCHANGED <<poolVars, job, sse>>

NextStream ==
    \/ \E call \in StartCases : StreamStart(call[1], call[2], call[3])
    \/ \E count \in 0..2, text \in StreamTexts, is_loading \in BOOLEAN :
          StreamPoll(count, text, is_loading)
    \/ \E current, text \in StreamTexts, is_loading \in BOOLEAN :
          StreamPollOld(current, text, is_loading)
    \/ StreamPollRaises
    \/ StreamTimeout

\* one run of the streaming detector against every page behaviour
SpecStream == Init /\ [][NextStream]_vars

\* one run of either detector
NextDetectors == NextDetect \/ NextStream

SpecDetectors == Init /\ [][NextDetectors]_vars

(***************************************************************************)
(* The long-text functions of AIClient.  A text is a sequence of           *)
(* characters; a character outside ASCII is written by its code point.     *)
(***************************************************************************)
Rep(ch, n) == [i \in 1..n |-> ch]

\* "Question: What is X?"
QuestionLine == <<"Q","u","e","s","t","i","o","n",":"," ",
                  "W","h","a","t"," ","i","s"," ","X","?">>

Kudasai == <<"U+3057","U+3066","U+304F","U+3060","U+3055","U+3044">>

\* question_markers, in the order of the list
question_markers ==
    << <<"U+8CEA","U+554F","U+FF1A">>, <<"U+8CEA","U+554F",":">>,
       <<"U+554F","U+FF1A">>, <<"U+554F",":">>,
       <<"U+56DE","U+7B54">> \o Kudasai \o <<"U+FF1A">>,
       <<"U+56DE","U+7B54">> \o Kudasai \o <<":">>,
       <<"Q","u","e","s","t","i","o","n",":">>,
       <<"q","u","e","s","t","i","o","n",":">>,
       <<"Q",":">>, <<"q",":">>,
       <<"U+304A","U+805E","U+304D","U+3057","U+307E","U+3059">>,
       <<"U+5206","U+6790">> \o Kudasai,
       <<"U+307E","U+3068","U+3081","U+3066","U+304F","U+3060","U+3055","U+3044">>,
       <<"U+6982","U+62EC">> \o Kudasai >>

\* the positions (0-based, as str.find counts) at which t occurs in s
Occurrences(t, s) ==
    {p \in 0..(Len(s) - Len(t)) : SubSeq(s, p + 1, p + Len(t)) = t}

Max(S) == CHOOSE x \in S : \A y \in S : y <= x
Min(S) == CHOOSE x \in S : \A y \in S : x <= y

\* str.rfind and str.find
RFind(t, s) == IF Occurrences(t, s) = {} THEN -1 ELSE Max(Occurrences(t, s))
Find(t, s) == IF Occurrences(t, s) = {} THEN -1 ELSE Min(Occurrences(t, s))

\* `pos > len(text) * 0.8` without the acceptance test
InLastFifthAlways(pos, len) == TRUE

\* `pos > len(text) * 0.8`
InLastFifth(pos, len) == 5 * pos > 4 * len

\* the markers of the list that pass both tests of the loop
AcceptedMarkers(text) ==
    {k \in DOMAIN question_markers :
        /\ Occurrences(question_markers[k], text) # {}
        /\ InLastFifth(RFind(question_markers[k], text), Len(text))}

\* text.split('\n\n'): the separators are matched from the left
RECURSIVE Split(_)
Split(s) ==
    LET p == Find(<<"\n", "\n">>, s)
    IN  IF p = -1 THEN <<s>>
        ELSE <<SubSeq(s, 1, p)>> \o Split(SubSeq(s, p + 3, Len(s)))

\* '\n\n'.join(parts)
RECURSIVE Join(_)
Join(parts) ==
    IF Len(parts) = 0 THEN <<>>
    ELSE IF Len(parts) = 1 THEN parts[1]
    ELSE parts[1] \o <<"\n", "\n">> \o Join(Tail(parts))

LooksLikeQuestion(last_paragraph) ==
    /\ Len(last_paragraph) < 500
    /\ \E ch \in {"?", "U+FF1F", "U+304A"} : Contains(<<ch>>, last_paragraph)

\* _extract_question_and_content: the first marker of the list that occurs
\* with its last occurrence in the last fifth cuts the text there; failing
\* that a short last paragraph that looks like a question is cut off;
\* failing that the text is returned with no question
ExtractQuestionAndContent(text) ==
    LET paragraphs == Split(Strip(text))
        last_paragraph == Strip(paragraphs[Len(paragraphs)])
    IN  IF AcceptedMarkers(text) # {}
        THEN LET pos == RFind(question_markers[Min(AcceptedMarkers(text))], text)
             IN  [content |-> Strip(SubSeq(text, 1, pos)),
                  question |-> Strip(SubSeq(text, pos + 1, Len(text)))]
        ELSE IF Len(paragraphs) > 1 /\ LooksLikeQuestion(last_paragraph)
        THEN [content |-> Join(SubSeq(paragraphs, 1, Len(paragraphs) - 1)),
              question |-> last_paragraph]
        ELSE [content |-> text, question |-> <<>>]

\* the fields the Settings class declares; its Config ignores extra keys of
\* the environment, so no other attribute exists on a Settings object
SettingsFields ==
    {"ai_tool_url", "browser_headless", "browser_slow_mo", "max_sessions",
     "session_timeout", "auth_state_path", "api_host", "api_port",
     "max_input_chars", "response_timeout", "selector_input",
     "selector_send_button", "selector_response", "selector_loading",
     "selector_new_chat", "selector_model_select"}

\* self.settings.<name>: reading an undeclared attribute raises
SettingRaises(name) == IF name \in SettingsFields THEN "none" ELSE "AttributeError"

\* _split_long_text: its first statement reads self.settings.chunk_size,
\* before the length of the text is looked at.  Settings declares no such
\* field, so the statement raises and nothing after it runs: neither the
\* `return [text]` of a short text nor the cutting and the templates.
SplitLongText(text, question) ==
    [raised |-> SettingRaises("chunk_size"), chunks |-> <<>>]

(***************************************************************************)
(* The texts the long-text functions are called with: a filler of n        *)
(* characters, with or without a marker at its very start, followed by     *)
(* nothing, by the line "Question: What is X?", by a line with an          *)
(* earlier-listed marker and then that line, or by a last paragraph.       *)
(***************************************************************************)
Body(n, marked) ==
    (IF marked THEN <<"U+8CEA", "U+554F", ":">> ELSE <<>>) \o Rep("a", n)

\* a filler of n spaces
Blank(n) == Rep(" ", n)

Tails ==
    { <<>>,
      <<"\n">> \o QuestionLine,
      <<"\n", "U+8CEA", "U+554F", ":", "x", "\n">> \o QuestionLine,
      <<"\n", "\n", "W", "h", "y", "?">> }

Texts ==
    {Body(n, marked) \o tail :
         n \in 0..MaxBody, marked \in BOOLEAN, tail \in Tails}
    \cup {Blank(n) \o tail : n \in 0..MaxBody, tail \in Tails}

\* a direct call of _extract_question_and_content
CallExtract(text) ==
    /\ job.pc = "idle"
    /\ job' = [job EXCEPT !.op = "extract", !.pc = "done", !.text = text,
                   !.content = ExtractQuestionAndContent(text).content,
                   !.question = ExtractQuestionAndContent(text).question]
    /\ UNCHANGED <<poolVars, det, sse>>

\* a direct call of _split_long_text
CallSplit(text, question) ==
    /\ job.pc = "idle"
    /\ LET r == SplitLongText(text, question)
       IN  job' = [job EXCEPT !.op = "split", !.text = text,
                       !.question = question, !.chunks = r.chunks,
                       !.raised = r.raised,
                       !.pc = IF r.raised = "none" THEN "done" ELSE "failed"]
    /\ UNCHANGED <<poolVars, det, sse>>

\* chat() with a prompt longer than the limit: the extraction
ChatLong(prompt, st) ==
    /\ job.pc = "idle"
    /\ Len(prompt) > MaxInputChars
    /\ job' = [job EXCEPT !.op = "chat", !.pc = "extracted", !.text = prompt,
                   !.stream = st,
                   !.content = ExtractQuestionAndContent(prompt).content,
                   !.question = ExtractQuestionAndContent(prompt).question]
    /\ UNCHANGED <<poolVars, det, sse>>

\* chat(): the split of the extracted content; what it raises leaves chat()
\* before anything is submitted
ChatSplit ==
    /\ job.op = "chat" /\ job.pc = "extracted"
    /\ LET r == SplitLongText(job.content, job.question)
       IN  job' = [job EXCEPT !.chunks = r.chunks, !.raised = r.raised,
                       !.pc = IF r.raised = "none" THEN "submit" ELSE "failed"]
    /\ UNCHANGED <<poolVars, det, sse>>

(***************************************************************************)
(* _send_chunked_messages.  chunk i of a dispatch is the text "c<i>",      *)
(* made longer than the limit of _send_message when `long` says so.        *)
(***************************************************************************)
Digits == <<"1", "2", "3", "4", "5", "6", "7", "8", "9">>

Chunk(i, long) ==
    <<"c", Digits[i]>> \o (IF long THEN Rep("a", MaxInputChars) ELSE <<>>)

Upper == <<"A","B","C","D","E","F","G","H","I","J","K","L","M",
           "N","O","P","Q","R","S","T","U","V","W","X","Y","Z">>
LowerOf == <<"a","b","c","d","e","f","g","h","i","j","k","l","m",
             "n","o","p","q","r","s","t","u","v","w","x","y","z">>

\* str.lower()
Lower(s) ==
    [i \in DOMAIN s |->
        IF \E k \in DOMAIN Upper : Upper[k] = s[i]
        THEN LowerOf[CHOOSE k \in DOMAIN Upper : Upper[k] = s[i]]
        ELSE s[i]]

confirmation_keywords ==
    { <<"U+53D7", "U+4FE1", "U+5B8C", "U+4E86">>, <<"U+53D7", "U+4FE1">>,
      <<"U+4E86", "U+89E3">>, <<"r","e","c","e","i","v","e","d">>,
      <<"U+627F", "U+77E5">>,
      <<"U+5206", "U+304B", "U+308A", "U+307E", "U+3057", "U+305F">> }

\* any(kw in response.lower() for kw in confirmation_keywords)
IsConfirmed(response) ==
    \E kw \in confirmation_keywords : Contains(kw, Lower(response))

\* the replies of the page: "Received", the acknowledgement the template
\* asks for, "OK" and a refusal
ReplyTexts ==
    { <<"R","e","c","e","i","v","e","d">>,
      <<"U+7B2C", "1", "U+90E8", "U+53D7", "U+4FE1", "U+5B8C", "U+4E86">>,
      <<"O", "K">>,
      <<"S","o","r","r","y">> }

\* a reply without a keyword ends the dispatch
AfterReplyStrict(is_confirmed) ==
    IF is_confirmed THEN [log |-> "info", pc |-> "pause", raised |-> "none"]
    ELSE [log |-> "warning", pc |-> "failed", raised |-> "AIClientError"]

\* what follows the reply to a chunk that is not the last: a log line that
\* depends on the keywords, then the pause before the next chunk
AfterReply(is_confirmed) ==
    [log |-> IF is_confirmed THEN "info" ELSE "warning",
     pc |-> "pause", raised |-> "none"]

\* the loop variable skips a chunk
NextIndexSkip(i) == i + 2

\* `for i, chunk in enumerate(chunks)`
NextIndex(i) == i + 1

\* a direct call of _send_chunked_messages
CallDispatch(k, long, st) ==
    /\ job.pc = "idle"
    /\ job' = [job EXCEPT !.op = "dispatch", !.pc = "submit", !.stream = st,
                   !.chunks = [i \in 1..k |-> Chunk(i, long[i])],
                   !.i = 1]
    /\ UNCHANGED <<poolVars, det, sse>>

IsLast(j) == j.i = Len(j.chunks)

\* the chunk of this iteration goes to the page: through _send_message, or,
\* for the last chunk of a streaming call, through the inline submit that
\* hands back the generator of _stream_response
DispatchSubmit(found) ==
    /\ job.pc = "submit"
    /\ LET chunk == job.chunks[job.i]
       IN  IF IsLast(job) /\ job.stream
           THEN IF ~found
                THEN job' = [job EXCEPT !.pc = "failed",
                                        !.raised = "AIClientError"]
                ELSE job' = [job EXCEPT !.pc = "done",
                                 !.sent = Append(@, chunk),
                                 !.result = <<"generator", job.i>>]
           ELSE IF Len(chunk) > MaxInputChars \/ ~found
                THEN job' = [job EXCEPT !.pc = "failed",
                                        !.raised = "AIClientError"]
                ELSE job' = [job EXCEPT !.pc = "waiting",
                                 !.sent = Append(@, chunk)]
    /\ UNCHANGED <<poolVars, det, sse>>

\* _wait_for_response returns: the result of the call for the last chunk,
\* otherwise the keyword test, the pause and the next iteration
DispatchReply(response) ==
    /\ job.pc = "waiting"
    /\ IF IsLast(job)
       THEN job' = [job EXCEPT !.pc = "done",
                        !.replies = Append(@, response),
                        !.result = <<"reply", response>>]
       ELSE LET a == AfterReply(IsConfirmed(response))
            IN  job' = [job EXCEPT !.pc = a.pc, !.raised = a.raised,
                             !.replies = Append(@, response),
                             !.log = Append(@, a.log)]
    /\ UNCHANGED <<poolVars, det, sse>>

\* _wait_for_response raises: the exception leaves the loop
DispatchDetectFail ==
    /\ job.pc = "waiting"
    /\ job' = [job EXCEPT !.pc = "failed", !.raised = "AIClientError"]
    /\ UNCHANGED <<poolVars, det, sse>>

\* asyncio.sleep(1) is over: the next iteration, or the end of the loop
DispatchSleep ==
    /\ job.pc = "pause"
    /\ IF NextIndex(job.i) > Len(job.chunks)
       THEN job' = [job EXCEPT !.pc = "done", !.i = NextIndex(@),
                               !.result = <<"None">>]
       ELSE job' = [job EXCEPT !.pc = "submit", !.i = NextIndex(@)]
    /\ UNCHANGED <<poolVars, det, sse>>

NextChunk ==
    \/ \E text \in Texts : CallExtract(text)
    \/ \E text \in Texts, question \in {<<>>, QuestionLine} :
          CallSplit(text, question)
    \/ \E prompt \in Texts, st \in BOOLEAN : ChatLong(prompt, st)
    \/ ChatSplit
    \/ \E k \in 1..MaxChunks, long \in [1..MaxChunks -> BOOLEAN],
          st \in BOOLEAN : CallDispatch(k, long, st)
    \/ \E found \in BOOLEAN : DispatchSubmit(found)
    \/ \E response \in ReplyTexts : DispatchReply(response)
    \/ DispatchDetectFail
    \/ DispatchSleep

\* the long-text functions, each called on its own, and the long-prompt
\* path of chat()
SpecChunk == Init /\ [][NextChunk]_vars

(***************************************************************************)
(* stream_response, routers/chat.py 67-116: the generator behind a         *)
(* streaming chat-completions response.  An event is what one `yield`      *)
(* hands to EventSourceResponse: the opening chunk with the role, a chunk  *)
(* with a content delta, the chunk with finish_reason "stop" (with the     *)
(* conversation id on the success path, without it on the error path) or   *)
(* the text "[DONE]".                                                      *)
(***************************************************************************)
RoleEvent == [type |-> "role", content |-> Empty, conversation_id |-> TRUE]

DeltaEvent(chunk) ==
    [type |-> "delta", content |-> chunk, conversation_id |-> TRUE]

\* line 101-109
FinalEvent == [type |-> "stop", content |-> Empty, conversation_id |-> TRUE]

\* line 114-121
ErrorEvent == [type |-> "stop", content |-> Empty, conversation_id |-> FALSE]

\* line 110 and 123
DoneEvent == [type |-> "[DONE]", content |-> Empty, conversation_id |-> FALSE]

\* what `async for chunk in stream` may hand over
SseChunks == {Empty, <<"a">>, <<"b">>}

Yield(s, event) == [s EXCEPT !.events = Append(@, event)]

CaughtSilent(s) == [s EXCEPT !.pc = "ended"]

\* 112-122: `except Exception` yields the chunk of the error path
Caught(s) == [Yield(s, ErrorEvent) EXCEPT !.pc = "error"]

\* 68-76: the generator is started and awaits client.chat()
SseCall ==
    /\ sse.pc = "idle"
    /\ sse' = [sse EXCEPT !.pc = "chat"]
    /\ UNCHANGED <<poolVars, det, job>>

\* 77-88: chat() returned the stream and the conversation id
SseChatReturns ==
    /\ sse.pc = "chat"
    /\ sse' = [Yield(sse, RoleEvent) EXCEPT !.pc = "iterating"]
    /\ UNCHANGED <<poolVars, det, job>>

\* chat() raised
SseChatRaises ==
    /\ sse.pc = "chat"
    /\ sse' = Caught(sse)
    /\ UNCHANGED <<poolVars, det, job>>

\* 90-99: the stream hands over a chunk; an empty one is skipped
SseChunk(chunk) ==
    /\ sse.pc = "iterating"
    /\ sse.n < MaxSseChunks
    /\ sse' = IF chunk # Empty
              THEN [Yield(sse, DeltaEvent(chunk)) EXCEPT !.n = @ + 1]
              ELSE [sse EXCEPT !.n = @ + 1]
    /\ UNCHANGED <<poolVars, det, job>>

\* the stream raised while the generator waited for its next chunk
SseStreamRaises ==
    /\ sse.pc = "iterating"
    /\ sse' = Caught(sse)
    /\ UNCHANGED <<poolVars, det, job>>

\* 101-109: the stream is exhausted
SseStreamEnds ==
    /\ sse.pc = "iterating"
    /\ sse' = [Yield(sse, FinalEvent) EXCEPT !.pc = "final"]
    /\ UNCHANGED <<poolVars, det, job>>

\* line 110, and line 123 on the error path
SseDone ==
    /\ sse.pc \in {"final", "error"}
    /\ sse' = [Yield(sse, DoneEvent) EXCEPT !.pc = "last"]
    /\ UNCHANGED <<poolVars, det, job>>

\* the generator is resumed after its last yield and returns
SseReturn ==
    /\ sse.pc = "last"
    /\ sse' = [sse EXCEPT !.pc = "ended"]
    /\ UNCHANGED <<poolVars, det, job>>

NextSse ==
    \/ SseCall
    \/ SseChatReturns
    \/ SseChatRaises
    \/ \E chunk \in SseChunks : SseChunk(chunk)
    \/ SseStreamRaises
    \/ SseStreamEnds
    \/ SseDone
    \/ SseReturn

\* One streaming response.  The server iterates the generator for as long as
\* the response is open, and chat() and the stream return or raise within
\* their timeouts, so a step that is possible is taken.
SpecSse == Init /\ [][NextSse]_vars /\ WF_vars(NextSse)

(***************************************************************************)
(* Scheduling.  The event loop resumes every task that is ready, and every *)
(* wait inside the body of a call is bounded (the detection budget, the    *)
(* visibility timeouts), so a task inside a body                           *)
(* takes its next step.  asyncio.Lock wakes its waiters in FIFO order and  *)
(* the lock is held only across one new_page(), so a task waiting for the  *)
(* lock to record its binding gets it; new_page() returns or raises       *)
(* within the browser driver's own timeout.  Nothing obliges a caller to   *)
(* start a call.                                                           *)
(***************************************************************************)
BodyProgress(c) ==
    \/ \E st \in BOOLEAN : SubmitFirst(c, st)
    \/ DetectReturn(c)
    \/ \E err \in BodyErrors : BodyRaise(c, err)

SpecFair ==
    /\ Init /\ [][NextChat]_vars
    /\ \A c \in ChatCallers :
        /\ WF_vars(BodyProgress(c))
        /\ WF_vars(CreateSession(c) \/ CreateSessionFail(c))
        /\ SF_vars(Bind(c))

Bound(cid) == cid \in DOMAIN conversations

(***************************************************************************)
(* C1.  No session is held by two callers at once: between the step in     *)
(* which an acquire marked session s busy for a task and the `finally` of  *)
(* that task, no other task's acquire obtains s.                           *)
(***************************************************************************)
NoDoubleHolding ==
    \A c1, c2 \in Callers :
        c1 /= c2 /\ Holding(c1) /\ Holding(c2)
            => task[c1].session /= task[c2].session

\* two tasks hold the two sessions and a third waits in the loop for a release
NoDoubleHoldingWitness ==
    \E c1, c2, c3 \in Callers :
        /\ c1 /= c2 /\ Holding(c1) /\ Holding(c2)
        /\ task[c3].pc = "any_wait"
        /\ {task[c1].session, task[c2].session} = Range(sessions)

(***************************************************************************)
(* C2.  The pool never has more than MaxSessions sessions, it grows by one *)
(* session at a time, and a task goes on to create a session only from a   *)
(* scan that found no idle session and fewer than MaxSessions sessions.    *)
(***************************************************************************)
PoolBounded ==
    /\ [](Len(sessions) <= MaxSessions)
    /\ [][\A c \in Callers :
            task[c].pc /= "creating" /\ task'[c].pc = "creating"
                => /\ Range(sessions) \subseteq is_busy
                   /\ Len(sessions) < MaxSessions]_vars
    /\ [][Len(sessions') > Len(sessions)
            => /\ Len(sessions) < MaxSessions
               /\ Len(sessions') = Len(sessions) + 1
               /\ \E c \in Callers : task[c].pc = "creating"]_vars

\* the pool is full and a caller waits instead of creating a session
PoolBoundedWitness ==
    /\ Len(sessions) = MaxSessions
    /\ \E c \in Callers : task[c].pc = "any_wait"

(***************************************************************************)
(* C3.  At most one in-flight operation works on a session's page: while   *)
(* response detection for a message submitted on a session is running, no  *)
(* second message is submitted on it (blocking and streaming calls).       *)
(***************************************************************************)
OneOperationPerPage ==
    \A c1, c2 \in Callers :
        c1 /= c2 /\ InFlight(c1) /\ InFlight(c2)
            => task[c1].session /= task[c2].session

(***************************************************************************)
(* C4.  No two conversation ids of the binding map are bound to the same   *)
(* session.                                                                *)
(***************************************************************************)
OneBindingPerSession ==
    \A a, b \in DOMAIN conversations :
        a /= b => conversations[a] /= conversations[b]

(***************************************************************************)
(* C5.  Every binding's session id is registered in the pool, also after   *)
(* disconnect() and a later reconnection.                                  *)
(***************************************************************************)
BindingsRegistered ==
    \A cid \in DOMAIN conversations : conversations[cid] \in Range(sessions)

(***************************************************************************)
(* C6.  While a conversation id is bound, its binding never changes, and   *)
(* every task whose acquire(conversationId) succeeded holds the session    *)
(* the binding names and was given back the same conversation id.         *)
(***************************************************************************)
StickySession ==
    /\ [](\A c \in Callers :
            task[c].branch = "known" /\ Holding(c)
                => /\ task[c].conv = task[c].arg
                   /\ Bound(task[c].arg)
                        => task[c].session = conversations[task[c].arg])
    /\ [][\A cid \in DOMAIN conversations \cap DOMAIN conversations' :
            conversations'[cid] = conversations[cid]]_vars

\* a task continues a conversation while another conversation is bound to
\* another session
StickySessionWitness ==
    \E c \in Callers, other \in DOMAIN conversations :
        /\ task[c].branch = "known" /\ task[c].pc = "body"
        /\ Bound(task[c].arg)
        /\ other /= task[c].arg
        /\ conversations[other] /= conversations[task[c].arg]

(***************************************************************************)
(* C7 as stated.  A call without new_conversation whose conversation id is *)
(* not bound returns, and binds, the caller's id.                          *)
(***************************************************************************)
UnknownIdKept ==
    \A c \in Callers :
        task[c].branch = "else" /\ task[c].arg /= NoConv /\ task[c].pc \in BodyPcs
            => task[c].conv = task[c].arg

(***************************************************************************)
(* C7 amended.  Such a call behaves like new_conversation also in its id:  *)
(* it returns a freshly generated id, the binding is recorded under that   *)
(* id, and the caller's id stays unbound.                                  *)
(***************************************************************************)
UnknownIdReplaced ==
    /\ [](\A c \in Callers :
            task[c].branch = "else" /\ task[c].arg /= NoConv /\ Holding(c)
                => /\ task[c].conv /= task[c].arg
                   /\ task[c].conv \in 1..(nextConv - 1)
                   /\ ~Bound(task[c].arg))
    /\ [][\A c \in Callers :
            task[c].pc = "bind" /\ task'[c].pc = "body"
            /\ task[c].branch \in {"new", "else"}
                => /\ ~Bound(task[c].conv)
                   /\ conversations' =
                        Put(conversations, task[c].conv, task[c].session)]_vars

UnknownIdReplacedWitness ==
    \E c \in Callers :
        /\ task[c].branch = "else" /\ task[c].arg = HintId
        /\ task[c].pc = "body"
        /\ Bound(task[c].conv)
        /\ conversations[task[c].conv] = task[c].session

(***************************************************************************)
(* C8.  Whenever the body of a call that holds a session ends, normally or *)
(* by an error, the session's busy flag is false in the state after.       *)
(***************************************************************************)
ReleasedAtExit ==
    [][\A c \in Callers :
          task[c].pc \in BodyPcs /\ task'[c].pc \notin BodyPcs
              => task[c].session \notin is_busy']_vars

\* a call has ended with an error and no session is busy
ReleasedAtExitWitness ==
    \E c \in Callers :
        /\ task[c].pc = "done"
        /\ task[c].result \in BodyErrors
        /\ is_busy = {}
        /\ sessions /= <<>>

(***************************************************************************)
(* C9.  Every session marked busy is eventually idle again, also when the  *)
(* binding of the call in flight is removed or swept; a step that drops a  *)
(* binding clears no busy flag, and sets one only for the task whose       *)
(* acquire ran the sweep.                                                  *)
(***************************************************************************)
BusyEventuallyIdle ==
    /\ \A s \in 1..MaxSessions : (s \in is_busy) ~> (s \notin is_busy)
    /\ [][(\E cid \in DOMAIN conversations : cid \notin DOMAIN conversations')
            => /\ is_busy \subseteq is_busy'
               /\ \A s \in is_busy' \ is_busy :
                    \E c \in Callers :
                        ~Holding(c) /\ task'[c].pc \in HeldPcs
                        /\ task'[c].session = s]_vars

\* the binding of a call in flight is gone while its session is busy
BusyEventuallyIdleWitness ==
    \E c \in Callers :
        /\ task[c].branch \in {"new", "else"}
        /\ task[c].pc \in BodyPcs
        /\ ~Bound(task[c].conv)
        /\ task[c].session \in is_busy

\* the polls of the example: "", "Thinking...", "Partial", "Partial", "Partial"
Example == <<Empty, Thinking, Partial, Partial, Partial>>

\* the run read exactly `seq`, never saw the loading indicator, and did not
\* send the text "Partial" itself
ExampleRead(seq) ==
    /\ det.reads = seq
    /\ det.quiet
    /\ Strip(det.sent_message) /= Partial

(***************************************************************************)
(* C10 as stated.  After the polls of the example, the third of which      *)
(* repeats "Partial" for the third time, the detector has returned         *)
(* "Partial".                                                              *)
(***************************************************************************)
StableAtThirdRead ==
    ExampleRead(Example) => det.exit = "stable" /\ det.result = Partial

(***************************************************************************)
(* C10 amended.  The detector returns a text as stable only when the       *)
(* stability counter has reached StableThreshold, which takes one read     *)
(* that sets the text and StableThreshold reads that repeat it; a text     *)
(* with a lower counter is returned only when the time budget is spent.    *)
(* After the five polls of the example the counter is 2 and nothing has    *)
(* been returned as stable; a fourth read of "Partial" returns it.         *)
(***************************************************************************)
StableReturn ==
    /\ det.pc = "polling" => det.stable_count < StableThreshold
    /\ det.exit = "stable"
          => /\ det.stable_count = StableThreshold
             /\ det.result = det.last_content
             /\ Cardinality({i \in DOMAIN det.reads : det.reads[i] = det.result})
                    >= StableThreshold + 1
    /\ det.exit = "timeout"
          => /\ det.elapsed >= ResponseTimeout
             /\ det.result = det.last_content
             /\ det.stable_count < StableThreshold
    /\ ExampleRead(Example) => det.stable_count = 2 /\ det.exit /= "stable"
    /\ ExampleRead(Example \o <<Partial>>)
          => det.exit = "stable" /\ det.result = Partial

\* the example followed by a fourth read of "Partial" has returned it
StableReturnWitness ==
    /\ ExampleRead(Example \o <<Partial>>)
    /\ det.exit = "stable"
    /\ det.result = Partial

RECURSIVE Concat(_)
Concat(seq) == IF seq = <<>> THEN <<>> ELSE Head(seq) \o Concat(Tail(seq))

IsPrefix(a, b) == Len(a) <= Len(b) /\ SubSeq(b, 1, Len(a)) = a

\* every text read extends the one read before it
Growing(reads) ==
    \A i \in 1..(Len(reads) - 1) : IsPrefix(reads[i], reads[i + 1])

(***************************************************************************)
(* C11.  When the page content only grows during a streaming run (nothing  *)
(* of the caller's own is echoed), the deltas yielded up to the end of the *)
(* run, concatenated, are the last content read from the page.             *)
(***************************************************************************)
DeltasMakeFinalContent ==
    /\ det.pc = "done"
    /\ det.response_started
    /\ det.sent_message = Empty
    /\ Growing(det.reads)
    => Concat(det.deltas) = det.reads[Len(det.reads)]

\* a text read by the run `d` that none of its filters discards
RealContent(d, content) ==
    /\ ~IsLoadingText(content)
    /\ Len(content) >= MinContentLen
    /\ ~(d.sent_message /= Empty /\ content = Strip(d.sent_message))

RealReads(d) == {i \in DOMAIN d.reads : RealContent(d, d.reads[i])}

(***************************************************************************)
(* C12.  A blocking run ends by the time budget only when the budget has   *)
(* elapsed; it then raises the timeout error if no read ever passed the    *)
(* filters, and otherwise returns the last content that passed them.       *)
(***************************************************************************)
TimeoutOutcome ==
    /\ det.pc = "polling" => det.elapsed <= ResponseTimeout
    /\ det.exit = "error"
          => det.elapsed >= ResponseTimeout /\ RealReads(det) = {}
    /\ det.exit = "timeout"
          => /\ det.elapsed >= ResponseTimeout
             /\ RealReads(det) /= {}
             /\ \E i \in RealReads(det) :
                    /\ \A j \in RealReads(det) : j <= i
                    /\ det.result = det.reads[i]
    /\ det.pc = "done" /\ det.elapsed >= ResponseTimeout
          => det.exit = (IF RealReads(det) = {} THEN "error" ELSE "timeout")

\* the budget ran out after a placeholder and two different contents
TimeoutOutcomeWitness ==
    /\ det.exit = "timeout"
    /\ det.result = PartialAnswer
    /\ \E i, j \in DOMAIN det.reads :
          det.reads[i] = Thinking /\ det.reads[j] = Partial

\* the text ends in the line "Question: What is X?"
EndsInQuestionLine(text) ==
    \/ text = QuestionLine
    \/ /\ Len(text) > Len(QuestionLine)
       /\ SubSeq(text, Len(text) - Len(QuestionLine), Len(text))
              = <<"\n">> \o QuestionLine

\* where that line starts, as str.find counts
QuestionPos(text) == Len(text) - Len(QuestionLine)

(***************************************************************************)
(* C19 as stated.  Whenever _extract_question_and_content has been called  *)
(* on a text that ends in the line "Question: What is X?", the question it *)
(* returned is that line and the content is the text before the marker.    *)
(***************************************************************************)
ExtractsFinalQuestion ==
    (job.op = "extract" /\ job.pc = "done" /\ EndsInQuestionLine(job.text))
    => /\ job.question = QuestionLine
       /\ job.content = Strip(SubSeq(job.text, 1, QuestionPos(job.text)))

(***************************************************************************)
(* C19, amended.  Whenever _extract_question_and_content has been called   *)
(* on a text that ends in the line "Question: What is X?", the marker      *)
(* "Question:" of that line starts beyond four fifths of the length of the *)
(* text, and no marker listed before "Question:" occurs beyond four fifths *)
(* of the length, the question returned is that line and the content is    *)
(* the stripped text before the marker.                                    *)
(***************************************************************************)
ExtractsFinalQuestionInLastFifth ==
    ( /\ job.op = "extract" /\ job.pc = "done"
      /\ EndsInQuestionLine(job.text)
      /\ 5 * QuestionPos(job.text) > 4 * Len(job.text)
      /\ \A k \in 1..6 : \A p \in Occurrences(question_markers[k], job.text) :
             5 * p <= 4 * Len(job.text) )
    => /\ job.question = QuestionLine
       /\ job.content = Strip(SubSeq(job.text, 1, QuestionPos(job.text)))

\* the extraction has cut a text of more than a hundred characters, with an
\* earlier-listed marker at its very start, at the final question line
ExtractsFinalQuestionWitness ==
    /\ job.op = "extract" /\ job.pc = "done"
    /\ EndsInQuestionLine(job.text)
    /\ 5 * QuestionPos(job.text) > 4 * Len(job.text)
    /\ Occurrences(question_markers[2], job.text) = {0}
    /\ job.question = QuestionLine
    /\ job.content = SubSeq(job.text, 1, QuestionPos(job.text) - 1)

\* "簡潔にまとめてください", the instruction of CHUNK_TEMPLATE_LAST_NO_QUESTION
SummarizeInstruction == <<"U+7C21", "U+6F54", "U+306B">> \o question_markers[13]

\* the long-prompt path of chat() is over
ChatLongOver == job.op = "chat" /\ job.pc \in {"done", "failed"}

(***************************************************************************)
(* C13.  Whenever chat() has been called with a prompt longer than the     *)
(* limit and its long-prompt path is over, a message has been submitted    *)
(* to the page and the last one submitted contains the extracted question, *)
(* or the summarize instruction when no question was extracted.            *)
(***************************************************************************)
LastChunkCarriesQuestion ==
    ChatLongOver
    => /\ job.sent # <<>>
       /\ Contains(IF job.question # <<>> THEN job.question
                   ELSE SummarizeInstruction,
                   job.sent[Len(job.sent)])

\* the split is over
SplitOver == job.op = "split" /\ job.pc \in {"done", "failed"}

(***************************************************************************)
(* C14.  Whenever _split_long_text has been called on a content longer     *)
(* than the limit, it returned chunks, the content fields of the chunks    *)
(* concatenated in order are the content, and the total_parts of every     *)
(* chunk is the number of chunks.                                          *)
(***************************************************************************)
SplitLossless ==
    (SplitOver /\ Len(job.text) > MaxInputChars)
    => /\ job.raised = "none"
       /\ job.chunks # <<>>
       /\ Concat([k \in DOMAIN job.chunks |-> job.chunks[k].content]) = job.text
       /\ \A k \in DOMAIN job.chunks :
              job.chunks[k].total_parts = Len(job.chunks)

(***************************************************************************)
(* C18.  Whenever _split_long_text has been called on a text no longer     *)
(* than the limit, it returned exactly one chunk, the text itself.         *)
(***************************************************************************)
SplitShortReturnsInput ==
    (SplitOver /\ Len(job.text) <= MaxInputChars)
    => /\ job.raised = "none"
       /\ job.chunks = <<job.text>>

\* what a dispatch that returned has returned: the generator of the last
\* chunk for a streaming call, the reply to the last chunk otherwise
FinalResult(j) ==
    IF j.stream THEN <<"generator", Len(j.chunks)>>
    ELSE <<"reply", j.replies[Len(j.chunks)]>>

DispatchOrder ==
    job.op = "dispatch"
    => /\ job.sent = SubSeq(job.chunks, 1, Len(job.sent))
       /\ Len(job.sent) <= Len(job.replies) + 1
       /\ job.pc = "done" => /\ job.sent = job.chunks
                             /\ job.result = FinalResult(job)

(***************************************************************************)
(* C15.  In every call of _send_chunked_messages the messages submitted so *)
(* far are the first chunks of the list in their order, at most one more   *)
(* chunk has been submitted than replies have been returned, a call that   *)
(* returned has submitted every chunk and its result is the reply to the   *)
(* last chunk (the generator of the last chunk for a streaming call), and  *)
(* once the call has failed nothing more is submitted.                     *)
(***************************************************************************)
DispatchInOrder ==
    /\ []DispatchOrder
    /\ [][job.pc = "failed" => job'.sent = job.sent]_vars

\* a blocking dispatch of three chunks has returned the third reply
DispatchInOrderWitness ==
    /\ job.op = "dispatch" /\ job.pc = "done" /\ ~job.stream
    /\ Len(job.chunks) = 3 /\ job.sent = job.chunks
    /\ Len(job.replies) = 3
    /\ job.result = <<"reply", job.replies[3]>>

\* the step records the reply to a chunk that is not the last, and the
\* reply holds none of the keywords
MismatchStep ==
    /\ job.op = "dispatch" /\ job.pc = "waiting" /\ ~IsLast(job)
    /\ Len(job'.replies) = Len(job.replies) + 1
    /\ \A kw \in confirmation_keywords :
           ~Contains(kw, Lower(job'.replies[Len(job'.replies)]))

(***************************************************************************)
(* C16.  A step of _send_chunked_messages that receives, for a chunk that  *)
(* is not the last, a reply with none of the acknowledgement keywords      *)
(* raises nothing and changes nothing of the dispatch but the record of    *)
(* the reply and a warning in the log: the call goes to its pause, and     *)
(* from the pause to the submission of the next chunk.                     *)
(***************************************************************************)
MismatchIgnored ==
    /\ [][MismatchStep
          => /\ job'.pc = "pause" /\ job'.raised = "none"
             /\ job'.sent = job.sent /\ job'.chunks = job.chunks
             /\ job'.i = job.i /\ job'.result = job.result
             /\ job'.log = Append(job.log, "warning")]_vars
    /\ [][job.pc = "pause"
          => /\ job'.pc = "submit" /\ job'.raised = "none"
             /\ job'.i = job.i + 1 /\ job'.i <= Len(job.chunks)]_vars

\* the second chunk went to the page after the reply "OK" to the first
MismatchIgnoredWitness ==
    /\ job.op = "dispatch" /\ Len(job.sent) = 2
    /\ job.sent[2] = job.chunks[2]
    /\ job.replies[1] = <<"O", "K">>
    /\ job.log[1] = "warning"

\* the step is a successful attempt of task c: the task leaves
\* connect_to_edge other than by its failure, with the flag and the context set
AttemptSucceeds(c) ==
    /\ task[c].pc \in ConnectPcs
    /\ task'[c].pc \notin ConnectPcs
    /\ task'[c].result # "connection_error"
    /\ connected' /\ context'

\* the step is a failed attempt of task c
AttemptFails(c) ==
    /\ task[c].pc \in ConnectPcs
    /\ \/ task'[c].pc \in ConnectPcs /\ task'[c].tries = task[c].tries + 1
       \/ task'[c].result = "connection_error"

IdleSessions == Range(sessions) \ is_busy

\* task c goes from its first scan into the wait loop
StartsWaiting(c) == task[c].pc # "any_wait" /\ task'[c].pc = "any_wait"

\* task c runs one iteration of the wait loop of _acquire_any_idle_session
PollsOnce(c) == task[c].pc = "any_wait" /\ task'[c] # task[c]

(***************************************************************************)
(* C17.  With max_sessions = 2 and three concurrent callers: a call of     *)
(* _acquire_any_idle_session starts to wait only when the pool holds       *)
(* max_sessions sessions and all of them are busy, so two calls are served *)
(* at their first scan and only the third waits; an iteration of the wait  *)
(* loop that finds a session released takes it (the wait ends at the first *)
(* poll after the release), an iteration takes only a session that was     *)
(* idle, and the wait ends with the timeout only at the last iteration of  *)
(* the budget with every session still busy.                               *)
(***************************************************************************)
ThirdWaitsForRelease ==
    [][\A c \in Callers :
          /\ StartsWaiting(c)
                => /\ Len(sessions) = MaxSessions
                   /\ IdleSessions = {}
                   /\ Cardinality({d \in Callers \ {c} : Holding(d)})
                          = MaxSessions
          /\ PollsOnce(c)
                => IF IdleSessions # {}
                   THEN /\ task'[c].pc \in HeldPcs
                        /\ task'[c].session \in IdleSessions
                        /\ task'[c].session \in is_busy'
                   ELSE /\ task'[c].session = NoSession
                        /\ (task'[c].result = "session_timeout")
                              = (task[c].polls + 1 = PollAttempts)
                        /\ task'[c].result # "session_timeout"
                              => task'[c].polls = task[c].polls + 1]_vars

\* two calls were served at their first scan, one of them has released its
\* session, and the third call is in its wait loop with one poll spent
ThirdWaitsForReleaseWitness ==
    \E c \in Callers :
        /\ task[c].pc = "any_wait" /\ task[c].polls = 1
        /\ Len(sessions) = MaxSessions
        /\ Cardinality(IdleSessions) = 1
        /\ \E d, e \in Callers \ {c} :
              d # e /\ task[d].pc = "done" /\ task[d].result = "reply"
                    /\ Holding(e)

\* the step is the failure of the last attempt of task c to connect
LastAttemptFails(c) ==
    /\ task[c].pc \in ConnectPcs
    /\ task'[c] # task[c]
    /\ ~connected'
    /\ task[c].tries + 1 = ConnectRetries

DetachReturns == dpc = "stopping" /\ dpc' = "idle"

(***************************************************************************)
(* C22.  When disconnect() returns, no page that a session of this system  *)
(* opened is still open, the pool has no registered session and the        *)
(* connected flag is false.                                                *)
(***************************************************************************)
DetachClosesAndClears ==
    [][DetachReturns
       => tabs' = {} /\ sessions' = <<>> /\ ~connected']_vars

\* the step changes the session map or one of the binding maps
MapsMutated ==
    \/ sessions' # sessions
    \/ conversations' # conversations
    \/ conversation_timeouts' # conversation_timeouts

\* the step is one of task c, which has the lock or takes the free lock
StepUnderLock(c) ==
    /\ task'[c] # task[c]
    /\ lockHolder \in {NoTask, c}

(***************************************************************************)
(* C23.  Every step that changes the session map, the binding map or the   *)
(* timestamp map is a step of a task that holds the lock in that step:     *)
(* session creation, binding, refresh, sweep, remove_conversation and      *)
(* disconnect alike.                                                       *)
(***************************************************************************)
MapsMutatedUnderLock ==
    [][MapsMutated => \E c \in Callers : StepUnderLock(c)]_vars

\* the idle session that comes first in the order of the pool
FirstObserved(s) ==
    /\ s \in IdleSessions
    /\ \A i, j \in DOMAIN sessions :
           (sessions[j] = s /\ i < j) => sessions[i] \in is_busy

(***************************************************************************)
(* C25.  A call in the wait loop of _acquire_any_idle_session holds no     *)
(* session and has spent fewer polls than the budget.  One iteration of    *)
(* the loop either takes the first idle session of the pool and marks it   *)
(* busy, or finds none, marks nothing and counts one poll, ending with the *)
(* session-timeout error exactly at the last poll of the budget; no        *)
(* iteration creates a session.                                            *)
(***************************************************************************)
WaitLoopBounded ==
    /\ [](\A c \in Callers :
             task[c].pc = "any_wait"
             => task[c].polls < PollAttempts /\ task[c].session = NoSession)
    /\ [][\A c \in Callers :
             PollsOnce(c)
             => /\ sessions' = sessions /\ nextSession' = nextSession
                /\ tabs' = tabs
                /\ IF IdleSessions # {}
                   THEN /\ FirstObserved(task'[c].session)
                        /\ is_busy' = is_busy \cup {task'[c].session}
                   ELSE /\ is_busy' = is_busy
                        /\ task'[c].session = NoSession
                        /\ IF task[c].polls + 1 = PollAttempts
                           THEN /\ task'[c].pc = "done"
                                /\ task'[c].result = "session_timeout"
                           ELSE /\ task'[c].pc = "any_wait"
                                /\ task'[c].polls = task[c].polls + 1]_vars

\* a plain acquire has ended with the session-timeout error while the pool
\* is at capacity with every session busy and held by another call
WaitLoopBoundedWitness ==
    /\ \E c \in PlainCallers : task[c].result = "session_timeout"
    /\ Len(sessions) = MaxSessions
    /\ IdleSessions = {}
    /\ Cardinality({d \in Callers : Holding(d)}) = MaxSessions

\* the step of task c runs _cleanup_expired_conversations: the call enters
\* acquire_conversation_session with the lock free, or gets the lock it
\* waited for
SweepsNow(c) ==
    /\ task'[c] # task[c]
    /\ \/ task[c].pc = "sweep"
       \/ task[c].pc = "idle" /\ connected /\ task'[c].branch # "plain"
                              /\ task'[c].pc # "sweep"
       \/ /\ task[c].pc = "chat_connect" /\ connected'
          /\ task'[c].pc \notin {"chat_connect", "sweep"}
          /\ task'[c].result # "connection_error"

\* the clock as that sweep read it
SweepClock(c) == IF task[c].pc = "sweep" THEN task[c].at ELSE now

\* the bindings older than the timeout by that clock
TooOld(c) ==
    {cid \in DOMAIN conversation_timeouts :
        SweepClock(c) - conversation_timeouts[cid] > ConversationTimeoutSeconds}

(***************************************************************************)
(* C26.  No chat call is past the entry of acquire_conversation_session    *)
(* without its sweep having run, and the step in which the sweep of a call *)
(* runs removes from both binding maps exactly the bindings whose last     *)
(* activity lies more than the timeout before the clock the sweep read,    *)
(* keeps every other binding with its session and its timestamp, and       *)
(* changes no registration, no page and no busy flag (the scan that        *)
(* follows in the same step marks at most the session the call obtains).   *)
(***************************************************************************)
SweepExact ==
    [][\A c \in ChatCallers :
          /\ (task[c].pc \in {"idle", "chat_connect", "sweep"}
                /\ task'[c].pc \notin {"idle", "chat_connect", "sweep", "done"})
                => SweepsNow(c)
          /\ SweepsNow(c)
                => /\ DOMAIN conversations' = DOMAIN conversations \ TooOld(c)
                   /\ DOMAIN conversation_timeouts'
                         = DOMAIN conversation_timeouts \ TooOld(c)
                   /\ \A cid \in DOMAIN conversations' :
                         /\ conversations'[cid] = conversations[cid]
                         /\ conversation_timeouts'[cid]
                               = conversation_timeouts[cid]
                   /\ task'[c].pc # "done" => task'[c].swept = TooOld(c)
                   /\ sessions' = sessions /\ tabs' = tabs
                   /\ is_busy \subseteq is_busy'
                   /\ is_busy' \ is_busy \subseteq {task'[c].session}]_vars

\* the sweep of a call has removed an expired binding and kept the fresh
\* one the call names, which the call then found in the map
SweepExactWitness ==
    \E c \in ChatCallers :
        /\ task[c].swept # {}
        /\ task[c].branch = "known"
        /\ task[c].conv \in DOMAIN conversations \ task[c].swept
        /\ now > ConversationTimeoutSeconds

(***************************************************************************)
(* C28.  When the blocking detector returns a content before the time      *)
(* budget is spent, the last StableThreshold polls before the return each  *)
(* read exactly that content with the loading indicator absent: no         *)
(* differing read, filtered read or failed poll lies among them.           *)
(***************************************************************************)
LastPollsReadResult ==
    det.exit = "stable"
    => det.recent.n >= StableThreshold /\ det.recent.content = det.result

(***************************************************************************)
(* C27.  When the streaming detector ends before the time budget is spent, *)
(* the last StreamStableThreshold polls before the end were consecutive    *)
(* polls that each read a content not longer than the content yielded so   *)
(* far, with the loading indicator absent.                                 *)
(***************************************************************************)
LastPollsCalm ==
    det.exit = "stable" => det.recent.n >= StreamStableThreshold

\* a content that matches one of the loading placeholders
Placeholder(content) == \E t \in loading_texts : Contains(t, content)

\* a content the run `d` is to discard: a loading placeholder, the text the
\* caller submitted, or fewer than MinContentLen characters
Discarded(d, content) ==
    \/ Placeholder(content)
    \/ content = d.sent_message
    \/ Len(content) < MinContentLen

\* the step is a poll that reads the last response element
ReadsNow == det.pc = "polling" /\ Len(det'.reads) = Len(det.reads) + 1

(***************************************************************************)
(* C29.  A content that is to be discarded is never the result of the      *)
(* blocking detector, whether it returns on stability or on timeout, and   *)
(* the poll that reads such a content yields no streaming delta, does not  *)
(* advance the stability counter and does not end the run.                 *)
(***************************************************************************)
DiscardedNeverCounts ==
    /\ [](det.mode = "blocking" /\ det.exit \in {"stable", "timeout"}
            => ~Discarded(det, det.result))
    /\ [][ReadsNow /\ Discarded(det, det'.reads[Len(det'.reads)])
            => /\ det'.stable_count <= det.stable_count
               /\ det'.deltas = det.deltas
               /\ det'.last_content = det.last_content
               /\ det'.pc = "polling"]_vars

\* a blocking run that read a placeholder, the submitted text and a short
\* content has returned on timeout
DiscardedNeverCountsWitness ==
    /\ det.mode = "blocking"
    /\ det.exit = "timeout"
    /\ det.sent_message # Empty
    /\ \E i, j, k \in DOMAIN det.reads :
          /\ Placeholder(det.reads[i])
          /\ det.reads[j] = det.sent_message
          /\ Len(det.reads[k]) < MinContentLen /\ ~Placeholder(det.reads[k])

\* the step takes a content in: the last element is read at 243 (374)
TakesContent == Len(det'.reads) > Len(det.reads)

(***************************************************************************)
(* C30.  A poll that finds no more response elements than the baseline     *)
(* count takes no content in during the first WaitNewElementTimeout        *)
(* seconds of the run; after them it takes the content of the last element *)
(* in only when the content the check of the gate reads in that element    *)
(* differs from the baseline snapshot (the element is then read again for  *)
(* the content).                                                           *)
(***************************************************************************)
GraceThenChanged ==
    [][TakesContent
         => /\ det'.seen # "none"
            /\ det'.seen # "new"
                  => /\ det.elapsed >= WaitNewElementTimeout
                     /\ det'.seen = "changed"]_vars

\* a streaming run yielded a delta from the element of before the send,
\* with no new element ever found
GraceThenChangedWitness ==
    /\ det.mode = "streaming"
    /\ det.initial_count > 0
    /\ ~det.grown
    /\ det.deltas # <<>>

\* the positions of the events of type t among the events yielded
EventsOfType(t) == {i \in DOMAIN sse.events : sse.events[i].type = t}

\* the generator has returned
SseEnded == sse.pc = "ended"

(***************************************************************************)
(* C24.  A streaming response never carries more than one "[DONE]" event   *)
(* and nothing follows that event; the generator, once started, ends, and  *)
(* when it has ended its last event is the one "[DONE]", the event before  *)
(* it is the one with finish_reason "stop", and every content delta comes  *)
(* before that one, whether chat() and the stream succeeded or raised.     *)
(***************************************************************************)
EndsWithOneDone ==
    /\ [](/\ Cardinality(EventsOfType("[DONE]")) <= 1
          /\ \A i \in EventsOfType("[DONE]") : i = Len(sse.events))
    /\ [](SseEnded
            => /\ EventsOfType("[DONE]") = {Len(sse.events)}
               /\ EventsOfType("stop") = {Len(sse.events) - 1}
               /\ \A i \in EventsOfType("delta") : i < Len(sse.events) - 1)
    /\ (sse.pc = "chat" ~> SseEnded)

\* a response has ended on the error path after it yielded content deltas
EndsWithOneDoneWitness ==
    /\ SseEnded
    /\ Cardinality(EventsOfType("delta")) >= 2
    /\ sse.events[Len(sse.events) - 1] = ErrorEvent

\* the time budget of the detector that runs
Budget(d) ==
    IF d.mode = "streaming" THEN StreamResponseTimeout ELSE ResponseTimeout

(***************************************************************************)
(* C31.  A detection run never polls past its time budget, and each of its *)
(* steps either ends the run or lets a second of the budget elapse, so the *)
(* run ends after at most budget + 1 steps; a streaming run that ends      *)
(* without having read a content that passed the filters has yielded no    *)
(* delta and ends by returning, not by raising.                            *)
(***************************************************************************)
DetectionEndsInBudget ==
    /\ [](det.elapsed <= Budget(det))
    /\ [][det.pc = "polling"
            => \/ det'.pc = "done"
               \/ det'.pc = "polling" /\ det'.elapsed = det.elapsed + 1]_vars
    /\ [](det.mode = "streaming" /\ det.pc = "done" /\ ~det.response_started
            => /\ det.deltas = <<>>
               /\ det.exit = "timeout"
               /\ det.elapsed = StreamResponseTimeout)

\* a streaming run that read only discarded texts has ended at the budget
DetectionEndsInBudgetWitness ==
    /\ det.mode = "streaming"
    /\ det.pc = "done"
    /\ ~det.response_started
    /\ Len(det.reads) >= 2
    /\ det.exit = "timeout"

\* the step runs the `finally` of the context manager for the task c: the
\* body of its `async with` ends, by a return or by an exception
Releases(c) == task[c].pc \in BodyPcs /\ task'[c].pc \in {"done", "streaming"}

(***************************************************************************)
(* C32.  The release of a session clears the busy flag of that session and *)
(* changes nothing else: the session stays registered in the pool, its tab *)
(* stays open, and every conversation binding and every last-activity      *)
(* timestamp is as before.                                                 *)
(***************************************************************************)
ReleaseOnlyClearsBusy ==
    [][\A c \in Callers :
          Releases(c)
             => /\ is_busy' = is_busy \ {task[c].session}
                /\ sessions' = sessions
                /\ tabs' = tabs
                /\ conversations' = conversations
                /\ conversation_timeouts' = conversation_timeouts]_vars

\* a call has released its session: the session is idle, registered, its tab
\* open, and the binding of the call's conversation still names it
ReleaseOnlyClearsBusyWitness ==
    \E c \in ChatCallers :
        /\ task[c].pc = "streaming"
        /\ task[c].session \notin is_busy
        /\ task[c].session \in Range(sessions) \cap tabs
        /\ task[c].conv \in DOMAIN conversations
        /\ conversations[task[c].conv] = task[c].session
        /\ task[c].conv \in DOMAIN conversation_timeouts

\* line 482: the number of chunks for a text of `total` characters and an
\* effective chunk size
NumChunks(total, effective) == (total + effective - 1) \div effective

\* the text fits in exactly one effective chunk, for an effective chunk
\* size of up to the limit of one submission
FitsOneChunk(text) ==
    \E effective \in 1..MaxInputChars : NumChunks(Len(text), effective) = 1

(***************************************************************************)
(* C33.  Whenever _split_long_text has been called on a text that fits in  *)
(* exactly one effective chunk, it returned a single chunk that is the     *)
(* text itself, with no template applied.                                  *)
(***************************************************************************)
OneChunkIsPlain ==
    (SplitOver /\ FitsOneChunk(job.text))
    => /\ job.raised = "none"
       /\ Len(job.chunks) = 1
       /\ job.chunks[1] = job.text

(***************************************************************************)
(* C34.  A call of chat() with a prompt over the limit whose extracted     *)
(* content is empty leaves the chunking path at once: the split is not     *)
(* run, so nothing it raises ends the call, no chunk is made and nothing   *)
(* is submitted.                                                           *)
(***************************************************************************)
EmptyContentSkipsChunking ==
    (job.op = "chat" /\ job.pc # "extracted" /\ job.content = Empty)
    => /\ job.raised = "none"
       /\ job.chunks = <<>>
       /\ job.sent = <<>>

(***************************************************************************)
(* C35.  Whenever _split_long_text has been called on a text longer than   *)
(* the limit of one submission, it returned framed chunks, the last one    *)
(* included, and each of them is at most max_input_chars long, so that     *)
(* _send_message accepts every one of them.                                *)
(***************************************************************************)
FramedChunksFitLimit ==
    (SplitOver /\ Len(job.text) > MaxInputChars)
    => /\ job.raised = "none"
       /\ job.chunks # <<>>
       /\ \A k \in DOMAIN job.chunks : Len(job.chunks[k]) <= MaxInputChars

(***************************************************************************)
(* C36.  In every reachable state the binding map and the last-activity    *)
(* map hold exactly the same conversation ids.                             *)
(***************************************************************************)
MapsHaveSameIds == DOMAIN conversations = DOMAIN conversation_timeouts

\* the blocking detection is over and its last polls, StableThreshold of
\* them or more in a row, each read the same text with loading absent
SettledAtEnd ==
    /\ det.mode = "blocking"
    /\ det.pc = "done"
    /\ det.recent.n >= StableThreshold

\* a non-empty text that is neither the baseline nor the submitted text
DiffersFromBaseline(d, content) ==
    /\ content # Empty
    /\ content # d.initial_content
    /\ content # Strip(d.sent_message)

\* a text that the filter of 246-256 lets through
PassesFilter(content) ==
    /\ ~IsLoadingText(content)
    /\ Len(content) >= MinContentLen

(***************************************************************************)
(* C37, as stated.  When the last response element has settled on a        *)
(* non-empty reply that differs from the baseline and from the submitted   *)
(* text, read unchanged with loading absent up to the end of the blocking  *)
(* detection, the detection has returned exactly that reply and has not    *)
(* ended in the timeout error.                                             *)
(***************************************************************************)
SettledReplyReturned ==
    (SettledAtEnd /\ DiffersFromBaseline(det, det.recent.content))
    => /\ det.exit # "error"
       /\ det.result = det.recent.content

(***************************************************************************)
(* C37, amended.  The same for a reply that the filter lets through (no    *)
(* loading phrase in it, at least MinContentLen characters): as soon as    *)
(* one poll has read it with loading absent it is the remembered content,  *)
(* and a detection that ends while the page still shows it returns exactly *)
(* that reply, as the stable result or as the result at the timeout.       *)
(***************************************************************************)
SettledRealReplyReturned ==
    (/\ det.mode = "blocking"
     /\ det.recent.n >= 1
     /\ DiffersFromBaseline(det, det.recent.content)
     /\ PassesFilter(det.recent.content))
    => /\ det.last_content = det.recent.content
       /\ det.pc = "done"
            => /\ det.exit \in {"stable", "timeout"}
               /\ det.result = det.recent.content

\* after an earlier reply, a new reply settled and was returned as the
\* stable result
SettledRealReplyReturnedWitness ==
    /\ SettledAtEnd
    /\ det.initial_count > 0
    /\ DiffersFromBaseline(det, det.recent.content)
    /\ PassesFilter(det.recent.content)
    /\ det.exit = "stable"
    /\ det.result = det.recent.content

\* no call under conversation id a is under way: the calls made under it
\* have ended and the next one has not begun
BetweenCalls(a) == \A c \in Callers : task[c].conv # a

(***************************************************************************)
(* C38.  While a conversation id is bound and no call under it is under    *)
(* way, which is the time between two consecutive calls under it, no call  *)
(* made under a different conversation id has submitted a message on the   *)
(* session the id is bound to and is waiting for the reply there.          *)
(***************************************************************************)
SessionKeptForConversation ==
    \A a \in DOMAIN conversations :
        BetweenCalls(a)
            => \A c \in ChatCallers :
                   task[c].pc = "detect" => task[c].session # conversations[a]

(***************************************************************************)
(* C39.  While a caller waits in the loop of _acquire_any_idle_session, a  *)
(* caller that has not begun its call yet, and so starts its acquire after *)
(* the wait began, is not given a session in the step that begins its      *)
(* call: a released session goes to the caller already waiting.            *)
(***************************************************************************)
WaiterServedFirst ==
    [][\A c, d \in Callers :
          (c # d /\ task[c].pc = "any_wait" /\ task[d].pc = "idle")
             => task'[d].session = NoSession]_vars

\* a call under its conversation id holds the session the id is bound to
HoldsBoundSession(c) ==
    /\ task[c].pc \in BodyPcs
    /\ task[c].session \in is_busy
    /\ task[c].conv \in DOMAIN conversations
    /\ conversations[task[c].conv] = task[c].session

(***************************************************************************)
(* C40.  No step in which the sweep of a call removes bindings removes the *)
(* binding of a conversation id while a call made under that id is holding *)
(* the bound session busy.                                                 *)
(***************************************************************************)
HeldBindingNotSwept ==
    [][\A c \in ChatCallers, d \in Callers :
          (HoldsBoundSession(c) /\ d # c /\ task'[d] # task[d])
             => ~(/\ task[c].conv \notin DOMAIN conversations'
                  /\ task[c].conv \in task'[d].swept)]_vars

====
